---- MODULE Spec2Model ----
(***************************************************************************)
(* State-machine model of the easy_record_working front-end: the API       *)
(* client (apiJson / apiBlob), the session store kept in localStorage,     *)
(* the AuthGuard and Header components, the NoticeProvider confirm         *)
(* dialog and the list pages (home, employees, projects, reports).         *)
(***************************************************************************)
EXTENDS Integers, Sequences, FiniteSets, Bags, TLC

VARIABLES
    fn,         \* pure-function harness: name of the function last applied
    arg,        \* pure-function harness: its input
    res,        \* pure-function harness: its result
    storage,    \* localStorage["easy-record-session"]: the raw stored text
    pathname,   \* usePathname(): the path of the page shown
    navTarget,  \* target of the router navigation under way, "none" if none
    ready,      \* AuthGuard: the ready state
    effects,    \* effects scheduled by the last commit and not yet run
    header,     \* Header: the user, tenant and menuOpen states
    submitting, \* LoginPage: the submitting state
    inflight,   \* requests sent through apiJson / apiBlob and not yet answered
    toast,      \* the notify(message, type) call of the last step, NoToast if it made none
    cleared,    \* history: clearAuthSession ran and no saveAuthSession since
    failedMe,   \* history: an /api/auth/me request failed, and since then the user has not
                \* acted and no login has succeeded
    tasks,      \* page: the running calls of handleDelete / handleFormSubmit / handleImportChange
    loads,      \* page: the bag of loader calls whose request is not yet answered
    answer,     \* history: the API answer the last step handled
    sent,       \* history: the query of the list request the last step sent, NoQuery if none
    confirmRef, \* NoticeProvider: confirmRef.current, the task its promise belongs to, 0 if null
    confirmState, \* NoticeProvider: the confirmState state, 0 if null
    modal,      \* page: isModalOpen and whether an editing id is set
    form,       \* page: formState.name, formState.tags and tagInput
    lists,      \* page: the list each loader last set
    loading,    \* page: the loading flag of each loader
    filters,    \* page: the filter inputs
    filtersRef, \* page: filtersRef.current / entryFiltersRef.current
    listPage,   \* page: currentPage / entryPage
    listTotal,  \* page: total / entryTotal
    timers,     \* timers set by window.setTimeout and neither fired nor cleared
    cleanupId,  \* the timer the cleanup of the last debounce effect clears, 0 if none
    sinceChange, \* history: ms since the debounce effect last ran, capped at DebounceMs
    sinceEdit,  \* history: ms since an input or the page last changed, capped at DebounceMs
    unsent,     \* history: the debounce effect ran and no list request was sent since
    pageReset   \* history: a filter change reset the page to 1 and since then the user
                \* chose no page and no list request was sent

pureVars == <<fn, arg, res>>
authVars == <<pathname, navTarget, ready, effects, header, submitting, inflight, toast, cleared,
              failedMe>>
viewVars == <<tasks, loads, answer, sent, confirmRef, confirmState, modal, form, lists, loading,
              filters, filtersRef, listPage, listTotal, timers, cleanupId, sinceChange,
              sinceEdit, unsent, pageReset>>
vars == <<fn, arg, res, storage, pathname, navTarget, ready, effects, header,
          submitting, inflight, toast, cleared, failedMe, tasks, loads, answer, sent, confirmRef,
          confirmState, modal, form, lists, loading, filters, filtersRef, listPage,
          listTotal, timers, cleanupId, sinceChange, sinceEdit, unsent,
          pageReset>>

(***************************************************************************)
(* JavaScript values.  Every value is a record of one shape: t is the      *)
(* typeof tag ("undefined", "null", "number", "string", "object",          *)
(* "array"), n the number, s the string, m the members of an object as a   *)
(* set of <<key, value>> pairs.                                            *)
(***************************************************************************)
Undef == [t |-> "undefined", n |-> 0, s |-> "", m |-> {}]
Null == [t |-> "null", n |-> 0, s |-> "", m |-> {}]
Num(k) == [t |-> "number", n |-> k, s |-> "", m |-> {}]
Str(x) == [t |-> "string", n |-> 0, s |-> x, m |-> {}]
Arr == [t |-> "array", n |-> 0, s |-> "", m |-> {}]
Obj(members) == [t |-> "object", n |-> 0, s |-> "", m |-> members]

\* typeof v: JavaScript reports "object" for null and for arrays
TypeOf(v) == IF v.t \in {"null", "array"} THEN "object" ELSE v.t

\* truthiness of a value: undefined, null, 0 and "" are falsy
Truthy(v) ==
    CASE v.t \in {"undefined", "null"} -> FALSE
      [] v.t = "number" -> v.n # 0
      [] v.t = "string" -> v.s # ""
      [] OTHER -> TRUE

\* key in v (own property present, whatever its value)
HasKey(v, key) == \E p \in v.m : p[1] = key

\* v[key] (v.key): undefined when the property is missing; reading a
\* property of a string, number or array index-less key gives undefined
Get(v, key) ==
    IF HasKey(v, key) THEN (CHOOSE p \in v.m : p[1] = key)[2] ELSE Undef

\* a ?? b
Coalesce(a, b) == IF a.t \in {"undefined", "null"} THEN b ELSE a

(***************************************************************************)
(* JSON text.  A text is "missing" (no such localStorage item), "empty"    *)
(* (the empty string), "invalid" (not parseable) or "json" with the        *)
(* value it denotes; in a JSON text an object holds only the keys that     *)
(* were written.                                                           *)
(***************************************************************************)
MissingText == [fmt |-> "missing", value |-> Undef]
EmptyText == [fmt |-> "empty", value |-> Undef]
InvalidText == [fmt |-> "invalid", value |-> Undef]
JsonText(v) == [fmt |-> "json", value |-> v]

\* JSON.stringify of the members of an object one level deep: a property
\* whose value is undefined is not written
StripUndef(members) == {p \in members : p[2].t # "undefined"}

\* JSON.stringify(value): nested objects (user, tenant) are written the
\* same way; a top-level undefined has no text
JSONStringify(v) ==
    IF v.t = "object"
    THEN JsonText(Obj({<<p[1], IF p[2].t = "object"
                                 THEN Obj(StripUndef(p[2].m))
                                 ELSE p[2]>> : p \in StripUndef(v.m)}))
    ELSE JsonText(v)

\* JSON.parse(text): [ok |-> FALSE] stands for the SyntaxError it throws
JSONParse(text) ==
    IF text.fmt = "json"
    THEN [ok |-> TRUE, value |-> text.value]
    ELSE [ok |-> FALSE, value |-> Undef]

(***************************************************************************)
(* Session store (lib/auth.ts)                                             *)
(***************************************************************************)
\* marks a call that ended by throwing instead of returning
Thrown == [t |-> "thrown", n |-> 0, s |-> "", m |-> {}]

\* the body of the try block of loadAuthSession: JSON.parse throws on
\* invalid text, and reading .token of a parsed null throws a TypeError
LoadAuthSessionTry(raw) ==
    IF raw.fmt \in {"missing", "empty"} THEN Null
    ELSE LET parsed == JSONParse(raw)
         IN  IF ~parsed.ok THEN Thrown
             ELSE IF parsed.value.t \in {"null", "undefined"} THEN Thrown
             ELSE LET token == Get(parsed.value, "token")
                  IN  IF ~Truthy(token) \/ TypeOf(token) # "string"
                      THEN Null
                      ELSE parsed.value

\* loadAuthSession without its try/catch: the exception escapes
LoadAuthSession_NoCatch(raw) == LoadAuthSessionTry(raw)

\* loadAuthSession(): the catch clause turns every exception into null
LoadAuthSession(raw) ==
    IF LoadAuthSessionTry(raw) = Thrown THEN Null ELSE LoadAuthSessionTry(raw)

\* saveAuthSession(session): the new content of the storage item
SaveAuthSession(session) == JSONStringify(session)

\* clearAuthSession(): the item is removed
ClearAuthSession == MissingText

\* loadAuthSession()?.field ?? null
LoadAuthField(raw, field) == Coalesce(Get(LoadAuthSession(raw), field), Null)

LoadAuthToken(raw) == LoadAuthField(raw, "token")
LoadAuthUser(raw) == LoadAuthField(raw, "user")
LoadAuthTenant(raw) == LoadAuthField(raw, "tenant")

\* an AuthSession object { token, user, tenant } as the callers build it: a
\* property may be present with the value undefined
Session(token, user, tenant) ==
    Obj({<<"token", token>>, <<"user", user>>, <<"tenant", tenant>>})

\* an AuthUser { account, display_name } and an AuthTenant { name }
User(account, displayName) ==
    Obj({<<"account", account>>, <<"display_name", displayName>>})
Tenant(name) == Obj({<<"name", name>>})

(***************************************************************************)
(* API client                                                              *)
(***************************************************************************)
\* response.ok
ResponseOk(status) == status >= 200 /\ status <= 299

\* the template string `request failed(${response.status})`
StatusMessage(status) ==
    CASE status = 400 -> "request failed(400)"
      [] status = 401 -> "request failed(401)"
      [] status = 500 -> "request failed(500)"
      [] OTHER -> "request failed(status)"

DefaultFailMessage == "request failed"

\* String(v) as new Error(v) computes its message
ErrorMessage(v) ==
    CASE v.t = "string" -> v.s
      [] v.t = "number" -> "number"
      [] OTHER -> "object"

\* apiJson without the application-level code check: every 2xx response
\* returns its payload
ApiJsonResult_NoCodeCheck(resp) ==
    LET parsed == JSONParse(resp.body)
        payload == IF resp.body.fmt \in {"empty", "missing"} THEN Null
                   ELSE IF parsed.ok THEN parsed.value
                   ELSE Str("raw text")
    IN  IF ~ResponseOk(resp.status)
        THEN [kind |-> "throw", message |-> StatusMessage(resp.status), payload |-> Undef]
        ELSE [kind |-> "return", message |-> "", payload |-> payload]

\* the part of apiJson after fetch resolved: text, parse, ok check, code check
ApiJsonResult(resp) ==
    LET parsed == JSONParse(resp.body)
        payload == IF resp.body.fmt \in {"empty", "missing"} THEN Null
                   ELSE IF parsed.ok THEN parsed.value
                   ELSE Str("raw text")
        msg == Get(payload, "message")
    IN  IF ~ResponseOk(resp.status)
        THEN [kind |-> "throw",
              message |-> IF Truthy(payload) /\ TypeOf(msg) = "string" /\ Truthy(msg)
                          THEN msg.s
                          ELSE StatusMessage(resp.status),
              payload |-> Undef]
        ELSE IF /\ Truthy(payload)
                /\ TypeOf(payload) = "object"
                /\ HasKey(payload, "code")
                /\ TypeOf(Get(payload, "code")) = "number"
                /\ Get(payload, "code").n # 0
        THEN [kind |-> "throw",
              message |-> IF msg.t \in {"undefined", "null"}
                          THEN DefaultFailMessage
                          ELSE ErrorMessage(msg),
              payload |-> Undef]
        ELSE [kind |-> "return", message |-> "", payload |-> payload]

(***************************************************************************)
(* Inputs of the API client: what the backend may answer                   *)
(***************************************************************************)
Statuses == {200, 204, 400, 401, 500}
CodeValues == {Undef, Null, Num(0), Num(1), Num(40001), Str("1")}
MessageValues == {Undef, Null, Str("bad parameter"), Str("")}
DataValues == {Undef, Str("data")}

\* the members of an envelope { code, message, data }; an absent field is
\* not a member
Envelope(code, message, data) ==
    Obj(StripUndef({<<"code", code>>, <<"message", message>>, <<"data", data>>}))

Envelopes == {Envelope(c, m, d) : c \in CodeValues, m \in MessageValues, d \in DataValues}

Bodies == {EmptyText, InvalidText, JsonText(Null), JsonText(Arr), JsonText(Str("text"))}
          \cup {JsonText(e) : e \in Envelopes}

Responses == [status : Statuses, body : Bodies]

(***************************************************************************)
(* Pure-function harness                                                   *)
(***************************************************************************)
PureInit ==
    /\ fn = "none"
    /\ arg = Undef
    /\ res = Undef

StoreInit == storage = MissingText

NoToast == [type |-> "none", text |-> ""]
NoUser == [user |-> Null, tenant |-> Null, menuOpen |-> FALSE]

(***************************************************************************)
(* Page state of the list pages (home "/", "/employees", "/projects") and  *)
(* of "/reports": the values a freshly mounted page component holds        *)
(***************************************************************************)
MaxTasks == 1
MaxLoads == 1
DebounceMs == 200
DefaultPageSize == 15
ProjectsPageSize == 200

TaskIds == 1..MaxTasks

ListPages == {"/", "/employees", "/projects"}
ViewPages == ListPages \cup {"/reports"}

\* the loader functions of a page component
Loaders(path) ==
    CASE path = "/" -> {"loadEmployees", "loadProjects", "loadEntries", "loadSummary"}
      [] path = "/employees" -> {"loadEmployees"}
      [] path = "/projects" -> {"loadProjects"}
      [] path = "/reports" ->
            {"loadEmployees", "loadProjects", "loadSummary", "loadProjectWorkUnits",
             "loadEmployeeWorkUnits", "loadWorkTypeWorkUnits", "loadTagWorkUnits",
             "openDayDetail"}
      [] OTHER -> {}

AllLoaders == UNION {Loaders(path) : path \in ViewPages}

\* the loader behind the paged list of a list page
ListLoader(path) ==
    CASE path = "/" -> "loadEntries"
      [] path = "/employees" -> "loadEmployees"
      [] path = "/projects" -> "loadProjects"
      [] OTHER -> ""

\* today's date key, the home page's first selectedDate
Today == "05-02"

\* useState initial values of the filter inputs: search is searchText
\* (selectedDate on the home page), kind the select filters (filterType,
\* filterTag, filterWorkType; selectedWorkType, selectedProjectId), which
\* the pages handle alike
InitialFilters(path) ==
    [search |-> IF path = "/" THEN Today ELSE "", kind |-> "", pageSize |-> DefaultPageSize]

\* String.prototype.trim on the texts the inputs may hold
Trim(text) ==
    CASE text = " " -> ""
      [] text = " ann " -> "ann"
      [] text = " pw " -> "pw"
      [] text = " li " -> "li"
      [] text = "li " -> "li"
      [] text = " a " -> "a"
      [] OTHER -> text

\* filtersKey (employees) and entryFiltersKey (home): the search text is
\* trimmed on the employees page only; the projects page has no key
FiltersKey(path, f) ==
    CASE path = "/employees" -> <<Trim(f.search), f.kind, f.pageSize>>
      [] path = "/" -> <<f.search, f.kind, f.pageSize>>
      [] OTHER -> <<>>

\* a handler or timer callback reads the state of the render that made it
NoClosure == [filters |-> [search |-> "", kind |-> "", pageSize |-> 0], page |-> 0]

IdleTask ==
    [kind |-> "idle", method |-> "", pc |-> "idle", closure |-> NoClosure,
     log |-> <<>>, created |-> 0, skipped |-> 0]

NoAnswer == [call |-> "", failed |-> FALSE]
NoQuery == [keyword |-> "", kind |-> "", page |-> 0, pageSize |-> 0]

EmptyForm == [name |-> "", tags |-> <<>>, tagInput |-> ""]
ClosedModal == [open |-> FALSE, editing |-> FALSE]

\* the state of a page component that has just been constructed for path
FreshPage(path) ==
    /\ tasks = [s \in TaskIds |-> IdleTask]
    /\ loads = EmptyBag
    /\ answer = NoAnswer
    /\ sent = NoQuery
    /\ confirmRef = 0
    /\ confirmState = 0
    /\ modal = ClosedModal
    /\ form = EmptyForm
    /\ lists = [l \in AllLoaders |-> Arr]
    /\ loading = [l \in AllLoaders |-> FALSE]
    /\ filters = InitialFilters(path)
    /\ filtersRef = FiltersKey(path, InitialFilters(path))
    /\ listPage = 1
    /\ listTotal = 0
    /\ timers = {}
    /\ cleanupId = 0
    /\ sinceChange = 0
    /\ sinceEdit = 0
    /\ unsent = FALSE
    /\ pageReset = FALSE

\* no page component is mounted where the library functions and the routing
\* are specified: it has no handler calls, lists or loading flags
ViewIdle ==
    /\ tasks = <<>>
    /\ loads = EmptyBag
    /\ answer = NoAnswer
    /\ sent = NoQuery
    /\ confirmRef = 0
    /\ confirmState = 0
    /\ modal = ClosedModal
    /\ form = EmptyForm
    /\ lists = <<>>
    /\ loading = <<>>
    /\ filters = NoClosure.filters
    /\ filtersRef = <<>>
    /\ listPage = 0
    /\ listTotal = 0
    /\ timers = {}
    /\ cleanupId = 0
    /\ sinceChange = 0
    /\ sinceEdit = 0
    /\ unsent = FALSE
    /\ pageReset = FALSE

\* the application not loaded: the state the harnesses leave untouched
AuthIdle ==
    /\ pathname = "/login"
    /\ navTarget = "none"
    /\ ready = FALSE
    /\ effects = {}
    /\ header = NoUser
    /\ submitting = FALSE
    /\ inflight = {}
    /\ toast = NoToast
    /\ cleared = FALSE
    /\ failedMe = FALSE

\* apiJson applied to one response of the backend
CallApiJson ==
    /\ fn = "none"
    /\ \E resp \in Responses :
          /\ fn' = "apiJson"
          /\ arg' = resp
          /\ res' = ApiJsonResult(resp)
    /\ UNCHANGED <<storage, authVars, viewVars>>

InitApi == PureInit /\ StoreInit /\ AuthIdle /\ ViewIdle
NextApi == CallApiJson
SpecApi == InitApi /\ [][NextApi]_vars

\* C1: a 2xx response whose JSON body is an object with a numeric code other
\* than 0 makes apiJson throw an Error carrying the body's message (the
\* default text when the body has none) and return no payload; with code 0
\* or no code the parsed payload is returned unchanged.
C1_NonZeroCodeThrows ==
    (fn = "apiJson" /\ ResponseOk(arg.status) /\ arg.body.fmt = "json"
        /\ arg.body.value.t = "object") =>
      LET code == Get(arg.body.value, "code")
          message == Get(arg.body.value, "message")
      IN  /\ (code.t = "number" /\ code.n # 0) =>
                /\ res.kind = "throw"
                /\ res.payload = Undef
                /\ message.t = "string" => res.message = message.s
                /\ message.t = "undefined" => res.message = DefaultFailMessage
          /\ (code = Num(0) \/ ~HasKey(arg.body.value, "code")) =>
                /\ res.kind = "return"
                /\ res.payload = arg.body.value

C1_Witness ==
    /\ fn = "apiJson"
    /\ arg.status = 200
    /\ arg.body.fmt = "json"
    /\ Get(arg.body.value, "code") = Num(40001)
    /\ Get(arg.body.value, "message") = Str("bad parameter")
    /\ res.kind = "throw"

(***************************************************************************)
(* Session store harness: save, clear, foreign writes and reads of the     *)
(* storage item                                                            *)
(***************************************************************************)
TokenValues == {Undef, Str(""), Str("tok1"), Str("tok2"), Num(7)}
UserValues == {Undef, User(Str("ann"), Undef), User(Str("ann"), Str("Ann")), User(Undef, Undef)}
TenantValues == {Undef, Tenant(Str("acme")), Tenant(Undef)}
SessionValues == {Session(t, u, n) : t \in TokenValues, u \in UserValues, n \in TenantValues}

\* texts that something other than saveAuthSession may have left in the item
ForeignTexts == {EmptyText, InvalidText, JsonText(Null), JsonText(Num(1)),
                 JsonText(Str("tok1")), JsonText(Arr), JsonText(Obj({}))}

StoreSave ==
    /\ UNCHANGED <<authVars, viewVars>>
    /\ \E session \in SessionValues :
          /\ storage' = SaveAuthSession(session)
          /\ fn' = "saveAuthSession"
          /\ arg' = session
    /\ res' = Undef

StoreClear ==
    /\ UNCHANGED <<authVars, viewVars>>
    /\ storage' = ClearAuthSession
    /\ fn' = "clearAuthSession"
    /\ arg' = Undef
    /\ res' = Undef

StoreForeignWrite ==
    /\ UNCHANGED <<authVars, viewVars>>
    /\ \E text \in ForeignTexts :
          /\ storage' = text
          /\ fn' = "foreignWrite"
          /\ arg' = text.value
    /\ res' = Undef

StoreLoad ==
    /\ fn' = "loadAuthSession"
    /\ arg' = Undef
    /\ res' = Obj({<<"session", LoadAuthSession(storage)>>,
                   <<"token", LoadAuthToken(storage)>>,
                   <<"user", LoadAuthUser(storage)>>,
                   <<"tenant", LoadAuthTenant(storage)>>})
    /\ UNCHANGED <<storage, authVars, viewVars>>

InitStore == PureInit /\ StoreInit /\ AuthIdle /\ ViewIdle
NextStore == StoreSave \/ StoreClear \/ StoreForeignWrite \/ StoreLoad
SpecStore == InitStore /\ [][NextStore]_vars

\* two objects have the same value of a property
SameProp(a, b, key) == Get(a, key) = Get(b, key)

\* the session read back equals the session written: same token, same user
\* (account, display name), same tenant (name)
SameSession(a, b) ==
    /\ a.t = "object"
    /\ SameProp(a, b, "token")
    /\ Get(a, "user").t = Get(b, "user").t
    /\ SameProp(Get(a, "user"), Get(b, "user"), "account")
    /\ SameProp(Get(a, "user"), Get(b, "user"), "display_name")
    /\ Get(a, "tenant").t = Get(b, "tenant").t
    /\ SameProp(Get(a, "tenant"), Get(b, "tenant"), "name")

\* the stored text holds an object with a non-empty string token
HasStringToken(raw) ==
    /\ raw.fmt = "json"
    /\ raw.value.t = "object"
    /\ Get(raw.value, "token").t = "string"
    /\ Get(raw.value, "token").s # ""

\* C7: saveAuthSession(s) then loadAuthSession() gives a session equal to s
\* when s has a non-empty string token; after clearAuthSession the load gives
\* null; the load gives null and never throws when the item is missing, not
\* JSON or without a non-empty string token; loadAuthToken / loadAuthUser /
\* loadAuthTenant agree with the fields of loadAuthSession().
C7_SessionRoundTrip ==
    /\ (fn = "saveAuthSession" /\ Get(arg, "token").t = "string" /\ Get(arg, "token").s # "")
          => SameSession(LoadAuthSession(storage), arg)
    /\ fn = "clearAuthSession" => LoadAuthSession(storage) = Null
    /\ LoadAuthSession(storage) # Thrown
    /\ ~HasStringToken(storage) => LoadAuthSession(storage) = Null
    /\ fn = "loadAuthSession" =>
          /\ Get(res, "token") = Coalesce(Get(Get(res, "session"), "token"), Null)
          /\ Get(res, "user") = Coalesce(Get(Get(res, "session"), "user"), Null)
          /\ Get(res, "tenant") = Coalesce(Get(Get(res, "session"), "tenant"), Null)
          /\ Get(res, "session") = Null => Get(res, "token") = Null

C7_Witness ==
    /\ fn = "saveAuthSession"
    /\ Get(arg, "token") = Str("tok1")
    /\ HasKey(Get(arg, "user"), "display_name")
    /\ Get(Get(arg, "user"), "display_name") = Undef
    /\ Get(arg, "tenant") = Undef
    /\ LoadAuthSession(storage) # Null

(***************************************************************************)
(* Work units.  Hours come in steps of 0.5, so an hour value is held as a  *)
(* count of half hours; normalHours / 8 + overtimeHours / 6 is then        *)
(* (3 * normalHalf + 4 * overtimeHalf) / 48, held as a count of 48ths.     *)
(* A displayed text is held as the number it shows, in hundredths.         *)
(***************************************************************************)
MaxHalfHours == 16

\* normalHours / 8 + overtimeHours / 6, in 48ths
WorkUnits48(normalHalf, overtimeHalf) == 3 * normalHalf + 4 * overtimeHalf

\* Number.isInteger(units)
IsIntegerUnits(units48) == units48 % 48 = 0

\* units.toFixed(2) cutting the digits after the second decimal
ToFixed2_Truncate(units48) == (100 * units48) \div 48

\* units.toFixed(2): the nearest number of hundredths, the larger one on a tie
ToFixed2(units48) == (100 * units48 + 24) \div 48

\* formatWorkUnits of the reports page: value already in units
FormatWorkUnitsValue(units48) ==
    IF IsIntegerUnits(units48) THEN 100 * (units48 \div 48) ELSE ToFixed2(units48)

\* formatWorkUnits(normalHours, overtimeHours) of the home page
FormatWorkUnits(normalHalf, overtimeHalf) ==
    FormatWorkUnitsValue(WorkUnits48(normalHalf, overtimeHalf))

\* workUnits of normalizeTimeEntry / totalWorkUnits of normalizeSummary: the
\* value the backend sent when there is one, the formula otherwise
NormalizeWorkUnits(normalHalf, overtimeHalf, raw) ==
    IF raw.t \in {"undefined", "null"}
    THEN WorkUnits48(normalHalf, overtimeHalf)
    ELSE raw.n

HalfHours == 0 .. MaxHalfHours
\* work_units / total_work_units of a response item, in 48ths when present
RawUnitValues == {Undef, Null} \cup {Num(k) : k \in {0, 6, 48, 50}}

CallFormatWorkUnits ==
    /\ fn = "none"
    /\ \E nh \in HalfHours, oh \in HalfHours :
          /\ fn' = "formatWorkUnits"
          /\ arg' = [normalHalf |-> nh, overtimeHalf |-> oh, raw |-> Undef]
          /\ res' = [units48 |-> WorkUnits48(nh, oh), shown |-> FormatWorkUnits(nh, oh)]
    /\ UNCHANGED <<storage, authVars, viewVars>>

CallNormalizeTimeEntry ==
    /\ fn = "none"
    /\ \E nh \in HalfHours, oh \in HalfHours, raw \in RawUnitValues :
          /\ fn' = "normalizeTimeEntry"
          /\ arg' = [normalHalf |-> nh, overtimeHalf |-> oh, raw |-> raw]
          /\ res' = [units48 |-> NormalizeWorkUnits(nh, oh, raw),
                     shown |-> FormatWorkUnitsValue(NormalizeWorkUnits(nh, oh, raw))]
    /\ UNCHANGED <<storage, authVars, viewVars>>

CallNormalizeSummary ==
    /\ fn = "none"
    /\ \E nh \in HalfHours, oh \in HalfHours, raw \in RawUnitValues :
          /\ fn' = "normalizeSummary"
          /\ arg' = [normalHalf |-> nh, overtimeHalf |-> oh, raw |-> raw]
          /\ res' = [units48 |-> NormalizeWorkUnits(nh, oh, raw),
                     shown |-> FormatWorkUnitsValue(NormalizeWorkUnits(nh, oh, raw))]
    /\ UNCHANGED <<storage, authVars, viewVars>>

InitUnits == PureInit /\ StoreInit /\ AuthIdle /\ ViewIdle
NextUnits == CallFormatWorkUnits \/ CallNormalizeTimeEntry \/ CallNormalizeSummary
SpecUnits == InitUnits /\ [][NextUnits]_vars

UnitsCall == fn \in {"formatWorkUnits", "normalizeTimeEntry", "normalizeSummary"}

\* C9 as stated: the number shown is exactly normalHours/8 + overtimeHours/6,
\* that is 48 * shown/100 = 3 * normalHalf + 4 * overtimeHalf
C9_ShownIsExact ==
    UnitsCall => 48 * res.shown = 100 * WorkUnits48(arg.normalHalf, arg.overtimeHalf)

\* C9 amended: when the response item carries no work-unit field, the value
\* computed is normalHours/8 + overtimeHours/6 and the number shown is that
\* value rounded to two decimals (at most half a hundredth away, the upper
\* neighbour on a tie), exact when the value is a whole number.
C9_ShownIsRounded ==
    (UnitsCall /\ arg.raw.t \in {"undefined", "null"}) =>
      LET exact == WorkUnits48(arg.normalHalf, arg.overtimeHalf)
      IN  /\ res.units48 = exact
          /\ 48 * res.shown - 100 * exact <= 24
          /\ 100 * exact - 48 * res.shown < 24
          /\ exact % 48 = 0 => 48 * res.shown = 100 * exact

C9_Witness ==
    /\ fn = "normalizeTimeEntry"
    /\ arg.normalHalf = 1
    /\ arg.overtimeHalf = 3
    /\ arg.raw = Undef
    /\ res.shown = 31

(***************************************************************************)
(* Requests through the API client                                         *)
(***************************************************************************)
MaxInflight == 2

NoAuthHeader == [scheme |-> "none", token |-> ""]

\* apiJson / apiBlob writing "Bearer null" when there is no token
AuthHeader_NoGuard(raw) ==
    [scheme |-> "Bearer",
     token |-> IF Truthy(LoadAuthToken(raw)) THEN LoadAuthToken(raw).s ELSE "null"]

\* the Authorization header apiJson and apiBlob build from loadAuthToken()
AuthHeader(raw) ==
    IF Truthy(LoadAuthToken(raw))
    THEN [scheme |-> "Bearer", token |-> LoadAuthToken(raw).s]
    ELSE NoAuthHeader

\* a request as fetch receives it; closure is what the caller keeps for its
\* continuation, live whether the component that sent it is still mounted
Request(kind, api, closure) ==
    [kind |-> kind, api |-> api, auth |-> AuthHeader(storage),
     closure |-> closure, live |-> TRUE]

HasRoom == Cardinality(inflight) < MaxInflight

\* fetch rejected (no connection): status 0
NetworkError == [status |-> 0, body |-> MissingText]

\* apiJson as its caller sees it
ApiJson(resp) ==
    IF resp.status = 0
    THEN [kind |-> "throw", message |-> "Failed to fetch", payload |-> Undef]
    ELSE ApiJsonResult(resp)

\* apiBlob as its caller sees it
ApiBlob(resp) ==
    IF resp.status = 0
    THEN [kind |-> "throw", message |-> "Failed to fetch", payload |-> Undef]
    ELSE IF ~ResponseOk(resp.status)
    THEN [kind |-> "throw", message |-> StatusMessage(resp.status), payload |-> Undef]
    ELSE [kind |-> "return", message |-> "", payload |-> Obj({})]

(***************************************************************************)
(* Routing, AuthGuard, Header, LoginPage                                   *)
(***************************************************************************)
ProtectedPaths == {"/", "/employees"}
PublicPaths == {"/login", "/register", "/privacy", "/disclaimer"}
Paths == ProtectedPaths \cup PublicPaths

\* AuthGuard: isPublic
IsPublic(path) ==
    path = "/login" \/ path = "/register" \/ path = "/privacy" \/ path = "/disclaimer"

\* AuthGuard render: the children are returned, not the placeholder
ChildrenRendered == IsPublic(pathname) \/ ready

\* Header render: null on /login and /register
HeaderRendered == ~(pathname = "/login" \/ pathname = "/register")

\* effects that run after a commit that mounted the tree or changed the
\* path: AuthGuard and Header depend on pathname, LoginPage runs its own on
\* mount
MountEffects(path) ==
    {"guard", "header"} \cup (IF path = "/login" THEN {"login"} ELSE {})

\* React runs pending effects before it handles a user event; a user acts
\* on a page whose navigation has settled
UserMayAct == effects = {} /\ navTarget = "none"

AuthInit ==
    /\ pathname \in Paths
    /\ navTarget = "none"
    /\ ready = FALSE
    /\ effects = MountEffects(pathname)
    /\ header = NoUser
    /\ submitting = FALSE
    /\ inflight = {}
    /\ toast = NoToast
    /\ cleared = FALSE
    /\ failedMe = FALSE

\* AuthGuard effect that never redirects
GuardEffectNav_NoRedirect(nav) == nav

\* AuthGuard effect: router.replace("/login") on a protected path without token
GuardEffectNav(nav) ==
    IF IsPublic(pathname) THEN nav
    ELSE IF ~Truthy(LoadAuthToken(storage)) THEN "/login"
    ELSE nav

\* AuthGuard effect: setReady(true) on a public path or with a token
GuardEffectReady ==
    IF IsPublic(pathname) THEN TRUE
    ELSE IF ~Truthy(LoadAuthToken(storage)) THEN ready
    ELSE TRUE

\* LoginPage effect: router.replace("/") when a session is stored
LoginEffectNav(nav) ==
    IF "login" \in effects /\ LoadAuthSession(storage) # Null THEN "/" ELSE nav

\* Header effect, state part: no token resets user, tenant and menu; with a
\* token the cached user and tenant are shown
HeaderEffectState ==
    IF ~Truthy(LoadAuthToken(storage)) THEN NoUser
    ELSE [user |-> IF Truthy(LoadAuthUser(storage))
                   THEN LoadAuthUser(storage) ELSE header.user,
          tenant |-> IF Truthy(LoadAuthTenant(storage))
                     THEN LoadAuthTenant(storage) ELSE header.tenant,
          menuOpen |-> header.menuOpen]

\* Header effect, request part: apiJson("/api/auth/me") with the token kept
\* for the continuation
HeaderEffectRequests ==
    IF ~Truthy(LoadAuthToken(storage)) THEN inflight
    ELSE inflight \cup {Request("me", "json", LoadAuthToken(storage).s)}

\* the effects of one commit run together: Header, LoginPage, AuthGuard
RunEffects ==
    /\ effects # {}
    /\ Truthy(LoadAuthToken(storage)) => HasRoom
    /\ header' = HeaderEffectState
    /\ inflight' = HeaderEffectRequests
    /\ navTarget' = GuardEffectNav(LoginEffectNav(navTarget))
    /\ ready' = GuardEffectReady
    /\ effects' = {}
    /\ toast' = NoToast
    /\ UNCHANGED <<pureVars, viewVars, failedMe, storage, pathname, submitting, cleared>>

\* the router finishes a navigation; a new path re-runs the effects and
\* mounts a new page (the LoginPage left behind no longer owns its requests)
NavCommit ==
    /\ navTarget # "none"
    /\ effects = {}
    /\ pathname' = navTarget
    /\ navTarget' = "none"
    /\ IF navTarget # pathname
       THEN /\ effects' = MountEffects(navTarget)
            /\ submitting' = FALSE
            /\ inflight' = {IF r.kind = "login" THEN [r EXCEPT !.live = FALSE] ELSE r :
                              r \in inflight}
       ELSE UNCHANGED <<effects, submitting, inflight>>
    /\ toast' = NoToast
    /\ UNCHANGED <<pureVars, viewVars, failedMe, storage, ready, header, cleared>>

\* the browser loads a URL (address bar, reload): a new run of the
\* application over the same localStorage
FreshLoad ==
    /\ UserMayAct
    /\ \E path \in Paths :
          /\ pathname' = path
          /\ effects' = MountEffects(path)
    /\ navTarget' = "none"
    /\ ready' = FALSE
    /\ header' = NoUser
    /\ submitting' = FALSE
    /\ inflight' = {}
    /\ toast' = NoToast
    /\ failedMe' = FALSE
    /\ UNCHANGED <<pureVars, viewVars, storage, cleared>>

\* a click on a <Link>: the Header links to the list pages, the login and
\* register pages link to each other
LinkTargets ==
    (IF HeaderRendered THEN ProtectedPaths ELSE {})
    \cup (IF pathname = "/login" THEN {"/register"} ELSE {})
    \cup (IF pathname = "/register" THEN {"/login"} ELSE {})

LinkClick ==
    /\ UserMayAct
    /\ \E target \in LinkTargets \ {pathname} : navTarget' = target
    /\ toast' = NoToast
    /\ failedMe' = FALSE
    /\ UNCHANGED <<pureVars, viewVars, storage, pathname, ready, effects, header, submitting,
                   inflight, cleared>>

\* Header: the account button toggles the menu
ToggleMenu ==
    /\ UserMayAct
    /\ HeaderRendered
    /\ Truthy(header.user)
    /\ header' = [header EXCEPT !.menuOpen = ~header.menuOpen]
    /\ toast' = NoToast
    /\ failedMe' = FALSE
    /\ UNCHANGED <<pureVars, viewVars, storage, pathname, navTarget, ready, effects, submitting,
                   inflight, cleared>>

\* Header.handleLogout
HandleLogout ==
    /\ UserMayAct
    /\ HeaderRendered
    /\ Truthy(header.user)
    /\ header.menuOpen
    /\ HasRoom
    /\ inflight' = inflight \cup {Request("logout", "json", "")}
    /\ storage' = ClearAuthSession
    /\ cleared' = TRUE
    /\ header' = NoUser
    /\ toast' = [type |-> "success", text |-> "logged out"]
    /\ navTarget' = "/login"
    /\ failedMe' = FALSE
    /\ UNCHANGED <<viewVars, pathname, ready, effects, submitting>>

\* the user chooses "log out" in the account menu
Logout ==
    /\ HandleLogout
    /\ UNCHANGED pureVars

\* a list page (children of AuthGuard on a protected path) calls apiJson
ViewRequest ==
    /\ ~IsPublic(pathname)
    /\ ready
    /\ HasRoom
    /\ inflight' = inflight \cup {Request("view", "json", "")}
    /\ toast' = NoToast
    /\ UNCHANGED <<pureVars, viewVars, failedMe, storage, pathname, navTarget, ready, effects, header,
                   submitting, cleared>>

\* EmployeesPage.handleExport calls apiBlob
ExportRequest ==
    /\ UserMayAct
    /\ pathname = "/employees"
    /\ ready
    /\ HasRoom
    /\ inflight' = inflight \cup {Request("export", "blob", "")}
    /\ toast' = NoToast
    /\ failedMe' = FALSE
    /\ UNCHANGED <<pureVars, viewVars, storage, pathname, navTarget, ready, effects, header,
                   submitting, cleared>>

\* the answer to a list, export or logout request changes no session state
\* (handleLogout ignores the outcome)
RespondOther ==
    /\ \E r \in inflight :
          /\ r.kind \in {"view", "export", "logout"}
          /\ inflight' = inflight \ {r}
    /\ toast' = NoToast
    /\ UNCHANGED <<pureVars, viewVars, failedMe, storage, pathname, navTarget, ready, effects, header,
                   submitting, cleared>>

(***************************************************************************)
(* /api/auth/me and /api/auth/login                                        *)
(***************************************************************************)
OkEnvelope(data) == JsonText(Envelope(Num(0), Str("ok"), data))
FailEnvelope == JsonText(Envelope(Num(40001), Str("rejected"), Undef))

\* answers every endpoint may give instead of its data
FailureResponses ==
    {[status |-> 200, body |-> FailEnvelope],
     [status |-> 401, body |-> JsonText(Envelope(Num(401), Str("unauthorized"), Undef))],
     [status |-> 200, body |-> EmptyText],
     NetworkError}

MeResponses ==
    {[status |-> 200, body |-> OkEnvelope(d)] :
        d \in {Obj({<<"user", Obj({<<"account", Str("ann")>>, <<"display_name", Str("Ann")>>})>>,
                    <<"tenant", Obj({<<"name", Str("acme")>>})>>}),
               Obj({<<"account", Str("ann")>>}),
               Obj({<<"user", Obj({<<"id", Str("7")>>})>>})}}
    \cup FailureResponses

LoginResponses ==
    {[status |-> 200, body |-> OkEnvelope(d)] :
        d \in {Obj({<<"token", Str("tok1")>>,
                    <<"user", Obj({<<"account", Str("ann")>>})>>,
                    <<"tenant", Obj({<<"name", Str("acme")>>})>>}),
               Obj({<<"access_token", Str("tok2")>>}),
               Obj({<<"token", Str("")>>}),
               Obj({})}}
    \cup {[status |-> 200, body |-> JsonText(Obj({<<"jwt", Str("tok2")>>}))]}
    \cup FailureResponses

\* Header.isAuthUser without the test of the account
IsAuthUser_AnyObject(value) ==
    /\ TypeOf(value) = "object"
    /\ value.t # "null"

\* Header.isAuthUser
IsAuthUser(value) ==
    /\ TypeOf(value) = "object"
    /\ value.t # "null"
    /\ HasKey(value, "account")
    /\ TypeOf(Get(value, "account")) = "string"

\* payload.data ?? payload
PayloadData(payload) == Coalesce(Get(payload, "data"), payload)

\* reading a property of null or undefined throws a TypeError
ThrowsOnRead(value) == value.t \in {"null", "undefined"}

\* Header effect, continuation of apiJson("/api/auth/me"): then / catch /
\* finally on the answer to request r
HeaderAnswer(r, resp) ==
    /\ r.kind = "me"
    /\ inflight' = inflight \ {r}
    /\ LET result == ApiJson(resp)
           data == PayloadData(result.payload)
           nextUser == Coalesce(Get(data, "user"), data)
           nextTenant == Coalesce(Get(data, "tenant"), Null)
       IN  IF result.kind = "throw" \/ ThrowsOnRead(result.payload)
           THEN /\ storage' = ClearAuthSession
                /\ cleared' = TRUE
                /\ failedMe' = (result.kind = "throw" \/ failedMe)
                /\ header' = [header EXCEPT !.user = Null, !.menuOpen = FALSE]
                /\ navTarget' = "/login"
           ELSE IF IsAuthUser(nextUser)
           THEN /\ storage' = SaveAuthSession(
                                 Session(Str(r.closure), nextUser, Coalesce(nextTenant, Undef)))
                /\ cleared' = FALSE
                /\ header' = [user |-> nextUser, tenant |-> nextTenant, menuOpen |-> FALSE]
                /\ UNCHANGED <<navTarget, failedMe>>
           ELSE /\ header' = [header EXCEPT !.menuOpen = FALSE]
                /\ UNCHANGED <<storage, cleared, navTarget, failedMe>>
    /\ toast' = NoToast
    /\ UNCHANGED <<viewVars, pathname, ready, effects, submitting>>

\* the backend answers an /api/auth/me request
RespondMe ==
    /\ \E r \in inflight, resp \in MeResponses : HeaderAnswer(r, resp)
    /\ UNCHANGED pureVars

Accounts == {"", " ", "ann", " ann "}
Passwords == {"", " ", " pw "}

\* LoginPage.handleSubmit: the warning that ends the call before the
\* request, "" when the inputs pass; without the check of the agreement box
LoginWarning_NoAgreement(account, password, agreed) ==
    IF Trim(account) = "" \/ Trim(password) = ""
    THEN "enter account and password"
    ELSE ""

\* LoginPage.handleSubmit: the warning that ends the call before the
\* request, "" when the inputs pass
LoginWarning(account, password, agreed) ==
    IF Trim(account) = "" \/ Trim(password) = ""
    THEN "enter account and password"
    ELSE IF ~agreed
    THEN "accept the agreements first"
    ELSE ""

\* LoginPage.handleSubmit up to the request, on the values of the inputs
HandleSubmit(account, password, agreed) ==
    /\ UserMayAct
    /\ pathname = "/login"
    /\ ~submitting
    /\ HasRoom
    /\ IF LoginWarning(account, password, agreed) # ""
       THEN /\ toast' = [type |-> "warning", text |-> LoginWarning(account, password, agreed)]
            /\ UNCHANGED <<submitting, inflight>>
       ELSE /\ submitting' = TRUE
            /\ inflight' = inflight \cup {Request("login", "json", Trim(account))}
            /\ toast' = NoToast
    /\ failedMe' = FALSE
    /\ UNCHANGED <<viewVars, storage, pathname, navTarget, ready, effects, header, cleared>>

\* the user fills the form in and submits it
LoginSubmit ==
    /\ \E account \in Accounts, password \in Passwords, agreed \in BOOLEAN :
          HandleSubmit(account, password, agreed)
    /\ UNCHANGED pureVars

\* the token of a login or register answer: token ?? access_token ?? jwt
AnswerToken(data) ==
    Coalesce(Coalesce(Get(data, "token"), Get(data, "access_token")), Get(data, "jwt"))

\* LoginPage.handleSubmit from the answer on: try / catch / finally
HandleSubmitAnswer(r, resp) ==
    /\ r.kind = "login"
    /\ inflight' = inflight \ {r}
    /\ submitting' = IF r.live THEN FALSE ELSE submitting
    /\ LET result == ApiJson(resp)
           data == PayloadData(result.payload)
           token == AnswerToken(data)
       IN  IF result.kind = "throw"
           THEN /\ toast' = [type |-> "error", text |-> result.message]
                /\ UNCHANGED <<storage, cleared, navTarget, failedMe>>
           ELSE IF ThrowsOnRead(result.payload)
           THEN /\ toast' = [type |-> "error", text |-> "TypeError"]
                /\ UNCHANGED <<storage, cleared, navTarget, failedMe>>
           ELSE IF ~Truthy(token)
           THEN /\ toast' = [type |-> "error", text |-> "login failed"]
                /\ UNCHANGED <<storage, cleared, navTarget, failedMe>>
           ELSE /\ storage' = SaveAuthSession(
                                 Session(token,
                                         Coalesce(Get(data, "user"),
                                                  Obj({<<"account", Str(r.closure)>>})),
                                         Get(data, "tenant")))
                /\ cleared' = FALSE
                /\ failedMe' = FALSE
                /\ toast' = [type |-> "success", text |-> "logged in"]
                /\ navTarget' = "/"
    /\ UNCHANGED <<viewVars, pathname, ready, effects, header>>

\* the backend answers a login request
RespondLogin ==
    /\ \E r \in inflight, resp \in LoginResponses : HandleSubmitAnswer(r, resp)
    /\ UNCHANGED pureVars

InitAuth == PureInit /\ StoreInit /\ AuthInit /\ ViewIdle
NextAuth ==
    \/ RunEffects
    \/ NavCommit
    \/ FreshLoad
    \/ LinkClick
    \/ ToggleMenu
    \/ Logout
    \/ ViewRequest
    \/ ExportRequest
    \/ RespondOther
    \/ RespondMe
    \/ LoginSubmit
    \/ RespondLogin
SpecAuth == InitAuth /\ [][NextAuth]_vars

\* effects run after every commit, the router completes a navigation, and
\* every fetch promise settles
FairAuth ==
    /\ WF_vars(RunEffects)
    /\ WF_vars(NavCommit)
    /\ WF_vars(RespondOther)
    /\ WF_vars(RespondMe)
    /\ WF_vars(RespondLogin)

\* routing and session only: the requests of the list pages, which change
\* neither, are left out
NextRouting ==
    \/ RunEffects
    \/ NavCommit
    \/ FreshLoad
    \/ LinkClick
    \/ ToggleMenu
    \/ Logout
    \/ RespondOther
    \/ RespondMe
    \/ LoginSubmit
    \/ RespondLogin
SpecAuthLive == InitAuth /\ [][NextRouting]_vars /\ FairAuth

TypeOKAuth ==
    /\ pathname \in Paths
    /\ navTarget \in Paths \cup {"none"}
    /\ Cardinality(inflight) <= MaxInflight

\* the stored text holds a session object whose token is a string
StoredStringToken(raw) ==
    /\ raw.fmt = "json"
    /\ raw.value.t = "object"
    /\ Get(raw.value, "token").t = "string"

\* C2: a request sent through apiJson or apiBlob carries Authorization:
\* Bearer <token> exactly when the session store holds a session with a string
\* token when the call starts, the token sent is the stored one, and a
\* request started after clearAuthSession (and before the next
\* saveAuthSession) carries no Authorization header.
C2_BearerIffStoredToken ==
    [][\A r \in inflight' \ inflight :
          r.live =>
            /\ r.auth.scheme \in {"Bearer", "none"}
            /\ r.auth.scheme = "Bearer" <=> StoredStringToken(storage)
            /\ r.auth.scheme = "Bearer" => r.auth.token = Get(storage.value, "token").s
            /\ cleared => r.auth = NoAuthHeader]_vars

C2_Witness ==
    /\ \E r \in inflight :
          r.api = "blob" /\ r.auth = [scheme |-> "Bearer", token |-> "tok2"]
    /\ \E r \in inflight :
          r.api = "json" /\ r.auth = NoAuthHeader
    /\ cleared

NoToken == ~Truthy(LoadAuthToken(storage))

\* a step in which the AuthGuard effect runs
GuardRuns == "guard" \in effects /\ effects' = {}

shellVars == <<fn, arg, res, storage, pathname, navTarget, ready, header, submitting,
               inflight, cleared, failedMe>>
confirmVars == <<confirmRef, confirmState>>
formVars == <<modal, form>>
debounceVars == <<filters, filtersRef, listPage, timers, cleanupId, sinceChange,
                  sinceEdit, unsent, pageReset>>

\* the page component is mounted and its mount effects have run
Mounted == pathname \in ViewPages /\ "page" \notin effects

Min(a, b) == IF a <= b THEN a ELSE b

\* the record of a handler call that has returned is dropped at the next step
Reaped == [s \in TaskIds |-> IF tasks[s].pc = "done" THEN IdleTask ELSE tasks[s]]

\* the state the handlers and timer callbacks of the current render close over
Closure == [filters |-> filters, page |-> listPage]

\* the non-empty array of a list payload
Rows == [t |-> "array", n |-> 1, s |-> "rows", m |-> {}]

\* Number(value) for the numbers the backend sends
NumberOf(value) == IF value.t = "number" THEN value.n ELSE 0

\* extractList
ExtractList(payload) ==
    IF ~Truthy(payload) THEN Arr
    ELSE IF payload.t = "array" THEN payload
    ELSE LET d == PayloadData(payload)
         IN  IF d.t = "array" THEN d
             ELSE IF Truthy(d) /\ TypeOf(d) = "object"
             THEN IF Get(d, "items").t = "array" THEN Get(d, "items")
                  ELSE IF Get(d, "list").t = "array" THEN Get(d, "list")
                  ELSE Arr
             ELSE Arr

\* extractPagedMeta(payload).total, for a payload whose properties can be read
MetaTotal(payload) ==
    LET d == PayloadData(payload)
    IN  IF Truthy(d) /\ TypeOf(d) = "object"
        THEN NumberOf(Coalesce(Get(d, "total"), Num(0)))
        ELSE 0

\* Math.max(1, Math.ceil(total / size))
TotalPages(total, size) == IF total <= 0 THEN 1 ELSE (total + size - 1) \div size

\* the month of a date key
MonthOf(date) == IF date = "06-01" THEN "06" ELSE "05"

\* the answer is one apiJson rejects: network error, HTTP error status or
\* a numeric code other than 0
ContractFailed(resp) == ApiJson(resp).kind = "throw"

\* answers of the list endpoints
Totals == {0, 12, 25}
ListResponses ==
    {[status |-> 200,
      body |-> OkEnvelope(Obj({<<"items", IF total = 0 THEN Arr ELSE Rows>>,
                               <<"total", Num(total)>>}))] : total \in Totals}
    \cup {[status |-> 200, body |-> JsonText(Rows)]}
    \cup FailureResponses

\* answers of DELETE, PUT, POST and of the CSV import
MutationResponses ==
    {[status |-> 200, body |-> OkEnvelope(Undef)], [status |-> 204, body |-> EmptyText]}
    \cup FailureResponses

\* answers of POST /api/time-entries/batch
BatchResponses ==
    {[status |-> 200, body |-> OkEnvelope(Obj({<<"created", Num(c)>>, <<"skipped", Num(k)>>}))] :
        c \in {0, 1}, k \in {0, 1}}
    \cup {[status |-> 200, body |-> OkEnvelope(Undef)], [status |-> 204, body |-> EmptyText]}
    \cup FailureResponses

\* loaders that call extractPagedMeta and keep total and page
UsesMeta(path, loader) == path \in {"/", "/employees"} /\ loader = ListLoader(path)

\* loaders with a loading state set true at the call and false in finally
HasLoadingFlag(path, loader) ==
    \/ path \in {"/", "/employees"} /\ loader = ListLoader(path)
    \/ path = "/reports" /\ loader \notin {"loadEmployees", "loadProjects"}

\* loaders whose catch block empties the list
ClearsOnError(path, loader) ==
    \/ path = "/" /\ loader \in {"loadEntries", "loadSummary"}
    \/ path = "/employees"
    \/ path = "/reports" /\ loader \notin {"loadEmployees", "loadProjects"}

\* loaders whose catch block calls notify; the others call console.error only
NotifiesOnError(path, loader) ==
    path = "/reports" /\ loader \in {"loadSummary", "openDayDetail"}

\* the query the list loader sends when it runs in a closure
QueryOf(path, cl) ==
    CASE path = "/employees" ->
            [keyword |-> Trim(cl.filters.search), kind |-> cl.filters.kind,
             page |-> cl.page, pageSize |-> cl.filters.pageSize]
      [] path = "/projects" ->
            [keyword |-> Trim(cl.filters.search), kind |-> "", page |-> 1,
             pageSize |-> ProjectsPageSize]
      [] OTHER ->
            [keyword |-> cl.filters.search, kind |-> cl.filters.kind,
             page |-> cl.page, pageSize |-> cl.filters.pageSize]

\* what the continuation of a loader call still reads of the closure the
\* call ran in: currentPage / entryPage and the page size, in the two
\* loaders that correct the page
LoaderClosure(path, loader, cl) ==
    IF UsesMeta(path, loader)
    THEN [page |-> cl.page, pageSize |-> cl.filters.pageSize]
    ELSE [page |-> 0, pageSize |-> 0]

\* the loader calls of a set of loaders made by owner (0: an effect or a timer)
Call(loaderSet, owner, cl) ==
    SetToBag({[loader |-> l, owner |-> owner, closure |-> LoaderClosure(pathname, l, cl)] :
                 l \in loaderSet})

\* the number of unanswered calls of a loader
Unanswered(loader) ==
    BagCardinality([ld \in {c \in BagToSet(loads) : c.loader = loader} |-> loads[ld]])

\* the loading flags after the calls
Loading(loaderSet) ==
    [l \in AllLoaders |->
        IF l \in loaderSet /\ HasLoadingFlag(pathname, l) THEN TRUE ELSE loading[l]]

\* window.clearTimeout that clears nothing
ClearTimeout_Noop(pending, id) == pending

\* window.clearTimeout(timer)
ClearTimeout(pending, id) == {t \in pending : t.id # id}

\* window.setTimeout: the id of the new timer
NewTimerId(pending) ==
    CHOOSE i \in 1..(Cardinality(pending) + 1) :
        /\ \A t \in pending : t.id # i
        /\ \A j \in 1..(i - 1) : \E t \in pending : t.id = j

NewTimer(id, cl) == [id |-> id, due |-> DebounceMs, closure |-> cl]

\* the deps of the debounce effect differ from those of the last render
DepsChanged(f, p) ==
    IF pathname = "/projects" THEN f.search # filters.search
    ELSE FiltersKey(pathname, f) # FiltersKey(pathname, filters) \/ p # listPage

\* the debounce effect after a render with filter inputs f and page p: the
\* cleanup of the last run, then the run; a run that calls setCurrentPage(1)
\* returns early and the render it causes runs the effect again, which then
\* sets the timer
Rerender(f, p) ==
    LET changed == DepsChanged(f, p)
        keyChanged == pathname # "/projects" /\ filtersRef # FiltersKey(pathname, f)
        page == IF changed /\ keyChanged THEN 1 ELSE p
        kept == ClearTimeout(timers, cleanupId)
        id == NewTimerId(kept)
    IN  [changed |-> changed,
         page |-> page,
         ref |-> IF changed /\ keyChanged THEN FiltersKey(pathname, f) ELSE filtersRef,
         timers |-> IF changed
                    THEN kept \cup {NewTimer(id, [filters |-> f, page |-> page])}
                    ELSE timers,
         cleanupId |-> IF changed THEN id ELSE cleanupId]

\* a commit of filter inputs f and page p, followed by its effects
Commit(f, p, edited) ==
    LET r == Rerender(f, p)
    IN  /\ filters' = f
        /\ filtersRef' = r.ref
        /\ listPage' = r.page
        /\ timers' = r.timers
        /\ cleanupId' = r.cleanupId
        /\ sinceChange' = IF r.changed THEN 0 ELSE sinceChange
        /\ sinceEdit' = IF edited THEN 0 ELSE sinceEdit
        /\ unsent' = (r.changed \/ unsent)

\* effects that run once after the page component mounted
MountLoaders(path) ==
    CASE path = "/" -> {"loadEmployees", "loadProjects", "loadSummary"}
      [] path = "/reports" -> Loaders("/reports") \ {"openDayDetail"}
      [] OTHER -> {}

\* the mount effects of the page: the loaders called at once and, on a list
\* page, the first debounce timer
PageMount ==
    /\ pathname \in ViewPages
    /\ "page" \in effects
    /\ effects' = effects \ {"page"}
    /\ loads' = loads (+) Call(MountLoaders(pathname), 0, Closure)
    /\ loading' = Loading(MountLoaders(pathname))
    /\ IF pathname \in ListPages
       THEN /\ timers' = {NewTimer(NewTimerId(timers), Closure)}
            /\ cleanupId' = NewTimerId(timers)
            /\ unsent' = TRUE
       ELSE UNCHANGED <<timers, cleanupId, unsent>>
    /\ pageReset' = FALSE
    /\ answer' = NoAnswer
    /\ sent' = NoQuery
    /\ toast' = NoToast
    /\ tasks' = Reaped
    /\ UNCHANGED <<shellVars, confirmVars, formVars, lists, listTotal,
                   filters, filtersRef, listPage, sinceChange, sinceEdit>>

\* time passes by half the debounce delay while a timer is pending; a timer
\* that is due fires first
Tick ==
    /\ Mounted
    /\ timers # {}
    /\ \A t \in timers : t.due > 0
    /\ timers' = {[t EXCEPT !.due = @ - (DebounceMs \div 2)] : t \in timers}
    /\ sinceChange' = Min(DebounceMs, sinceChange + (DebounceMs \div 2))
    /\ sinceEdit' = Min(DebounceMs, sinceEdit + (DebounceMs \div 2))
    /\ answer' = NoAnswer
    /\ sent' = NoQuery
    /\ toast' = NoToast
    /\ tasks' = Reaped
    /\ UNCHANGED <<shellVars, effects, loads, confirmVars, formVars, lists,
                   loading, listTotal, filters, filtersRef, listPage, cleanupId, unsent,
                   pageReset>>

\* the timer callback: loadEmployees() / loadEntries() / loadProjects(searchText)
TimerFire ==
    /\ Mounted
    /\ \E t \in timers :
          /\ t.due = 0
          /\ timers' = timers \ {t}
          /\ loads' = loads (+) Call({ListLoader(pathname)}, 0, t.closure)
          /\ sent' = QueryOf(pathname, t.closure)
    /\ loading' = Loading({ListLoader(pathname)})
    /\ unsent' = FALSE
    /\ pageReset' = FALSE
    /\ answer' = NoAnswer
    /\ toast' = NoToast
    /\ tasks' = Reaped
    /\ UNCHANGED <<shellVars, effects, confirmVars, formVars, lists, listTotal,
                   filters, filtersRef, listPage, cleanupId, sinceChange, sinceEdit>>

\* the user edits while fewer than limit list requests are unanswered
EditAllowed(limit) ==
    /\ Mounted
    /\ pathname \in ListPages
    /\ Unanswered(ListLoader(pathname)) < limit

EditGuard == EditAllowed(MaxLoads)

\* the debounce effect sees a new filter key while the page is not 1
ResetsPage(f) ==
    /\ pathname # "/projects"
    /\ filtersRef # FiltersKey(pathname, f)
    /\ listPage # 1

SearchValues(path) ==
    IF path = "/" THEN {"05-01", "05-02", "06-01"} ELSE {"", " ", "li"}
KindValues == {"", "k"}
PageSizes == {10, 15}

\* setSearchText; on the home page handleDayClick and handleMonthChange,
\* which selects the first day of the new month and runs the loadSummary
\* effect
EditSearch ==
    /\ EditGuard
    /\ \E v \in SearchValues(pathname) \ {filters.search} :
          /\ (pathname = "/" /\ MonthOf(v) # MonthOf(filters.search)) =>
                (v \in {"05-01", "06-01"} /\ Unanswered("loadSummary") < MaxLoads)
          /\ Commit([filters EXCEPT !.search = v], listPage, TRUE)
          /\ pageReset' = (pageReset \/ ResetsPage([filters EXCEPT !.search = v]))
          /\ loads' = IF pathname = "/" /\ MonthOf(v) # MonthOf(filters.search)
                      THEN loads (+) Call({"loadSummary"}, 0,
                                           [filters |-> [filters EXCEPT !.search = v],
                                            page |-> listPage])
                      ELSE loads
    /\ answer' = NoAnswer
    /\ sent' = NoQuery
    /\ toast' = NoToast
    /\ tasks' = Reaped
    /\ UNCHANGED <<shellVars, effects, confirmVars, formVars, lists, loading,
                   listTotal>>

\* a select filter changes
SelectKindWhile(limit) ==
    /\ EditAllowed(limit)
    /\ pathname # "/projects"
    /\ \E v \in KindValues \ {filters.kind} :
          /\ Commit([filters EXCEPT !.kind = v], listPage, TRUE)
          /\ pageReset' = (pageReset \/ ResetsPage([filters EXCEPT !.kind = v]))
    /\ answer' = NoAnswer
    /\ sent' = NoQuery
    /\ toast' = NoToast
    /\ tasks' = Reaped
    /\ UNCHANGED <<shellVars, effects, loads, confirmVars, formVars, lists,
                   loading, listTotal>>

SelectKind == SelectKindWhile(MaxLoads)

\* the page-size select: setPageSize(nextSize); setCurrentPage(1)
SetPageSizeWhile(limit) ==
    /\ EditAllowed(limit)
    /\ pathname # "/projects"
    /\ \E n \in PageSizes \ {filters.pageSize} :
          /\ Commit([filters EXCEPT !.pageSize = n], 1, TRUE)
          /\ pageReset' = (pageReset \/ ResetsPage([filters EXCEPT !.pageSize = n]))
    /\ answer' = NoAnswer
    /\ sent' = NoQuery
    /\ toast' = NoToast
    /\ tasks' = Reaped
    /\ UNCHANGED <<shellVars, effects, loads, confirmVars, formVars, lists,
                   loading, listTotal>>

SetPageSize == SetPageSizeWhile(MaxLoads)

\* the previous-page button
PrevPage ==
    /\ EditGuard
    /\ pathname # "/projects"
    /\ ~(listPage <= 1 \/ loading[ListLoader(pathname)])
    /\ Commit(filters, listPage - 1, TRUE)
    /\ pageReset' = FALSE
    /\ answer' = NoAnswer
    /\ sent' = NoQuery
    /\ toast' = NoToast
    /\ tasks' = Reaped
    /\ UNCHANGED <<shellVars, effects, loads, confirmVars, formVars, lists,
                   loading, listTotal>>

\* the next-page button
NextPage ==
    /\ EditGuard
    /\ pathname # "/projects"
    /\ ~(listPage >= TotalPages(listTotal, filters.pageSize) \/ loading[ListLoader(pathname)])
    /\ Commit(filters, Min(TotalPages(listTotal, filters.pageSize), listPage + 1), TRUE)
    /\ pageReset' = FALSE
    /\ answer' = NoAnswer
    /\ sent' = NoQuery
    /\ toast' = NoToast
    /\ tasks' = Reaped
    /\ UNCHANGED <<shellVars, effects, loads, confirmVars, formVars, lists,
                   loading, listTotal>>

\* a loader's try / catch / finally on the answer to its request
LoadOutcome(ld, resp) ==
    LET result == ApiJson(resp)
        paged == UsesMeta(pathname, ld.loader)
        failed == result.kind = "throw" \/ (paged /\ ThrowsOnRead(result.payload))
        total == IF paged /\ ~failed THEN MetaTotal(result.payload) ELSE 0
        pages == IF paged THEN TotalPages(total, ld.closure.pageSize) ELSE 1
        clamp == paged /\ ~failed /\ total > 0 /\ ld.closure.page > pages
    IN  [data |-> IF failed
                  THEN IF ClearsOnError(pathname, ld.loader) THEN Arr ELSE lists[ld.loader]
                  ELSE IF clamp /\ pathname = "/" THEN lists[ld.loader]
                  ELSE ExtractList(result.payload),
         total |-> IF paged THEN total ELSE listTotal,
         page |-> IF clamp THEN pages ELSE listPage,
         note |-> IF failed /\ NotifiesOnError(pathname, ld.loader)
                  THEN [type |-> "error", text |-> result.message]
                  ELSE NoToast]

\* a batch toast that never reports an error
BatchNote_NoError(created, skipped) ==
    IF skipped = 0 THEN [type |-> "success", text |-> "batch created"]
    ELSE [type |-> "warning", text |-> "batch partly created"]

\* the toast of the batch create, by the counts of the answer
BatchNote(created, skipped) ==
    IF skipped = 0 THEN [type |-> "success", text |-> "batch created"]
    ELSE IF created = 0 THEN [type |-> "error", text |-> "batch skipped"]
    ELSE [type |-> "warning", text |-> "batch partly created"]

\* the notify call a handler makes after its last refetch
FinishNote(t) ==
    CASE t.kind = "handleDelete" -> [type |-> "success", text |-> "deleted"]
      [] t.kind = "handleImportChange" -> [type |-> "success", text |-> "imported"]
      [] t.method = "BATCH" -> BatchNote(t.created, t.skipped)
      [] OTHER -> NoToast

\* a loader request is answered: the loader's continuation and, when a
\* handler awaits the loader, the handler's next step (on the home page
\* loadSummary after loadEntries)
AnswerLoad ==
    /\ Mounted
    /\ \E ld \in BagToSet(loads), resp \in ListResponses :
          LET out == LoadOutcome(ld, resp)
              owned == ld.owner # 0
              more == owned /\ pathname = "/" /\ tasks[ld.owner].pc = "list"
              note == IF out.note # NoToast THEN out.note
                      ELSE IF owned /\ ~more THEN FinishNote(tasks[ld.owner])
                      ELSE NoToast
          IN  /\ lists' = [lists EXCEPT ![ld.loader] = out.data]
              /\ listTotal' = out.total
              /\ loading' = [loading EXCEPT ![ld.loader] =
                                IF HasLoadingFlag(pathname, ld.loader) THEN FALSE ELSE @]
              /\ Commit(filters, out.page, out.page # listPage)
              /\ loads' = (loads (-) SetToBag({ld})) (+)
                          (IF more THEN Call({"loadSummary"}, ld.owner, tasks[ld.owner].closure)
                           ELSE EmptyBag)
              /\ tasks' = IF ~owned THEN Reaped
                          ELSE IF more
                          THEN [Reaped EXCEPT ![ld.owner].pc = "summary",
                                             ![ld.owner].log = Append(@, "GET summary")]
                          ELSE [Reaped EXCEPT ![ld.owner].pc = "done",
                                             ![ld.owner].log =
                                                IF note = NoToast THEN @
                                                ELSE Append(@, "toast " \o note.type)]
              /\ toast' = note
              /\ answer' = [call |-> ld.loader, failed |-> ContractFailed(resp)]
              /\ sent' = NoQuery
    /\ UNCHANGED <<shellVars, effects, confirmVars, formVars, pageReset>>

\* a handler can start while fewer than MaxTasks handlers are running
HasFreeSlot == \E s \in TaskIds : tasks[s].pc \in {"idle", "done"}
FreeSlot ==
    CHOOSE s \in TaskIds :
        /\ tasks[s].pc \in {"idle", "done"}
        /\ \A r \in TaskIds : tasks[r].pc \in {"idle", "done"} => s <= r

NewTask(kind, method, pc, log) ==
    [kind |-> kind, method |-> method, pc |-> pc, closure |-> Closure, log |-> log,
     created |-> 0, skipped |-> 0]

\* handleDelete up to its await: confirm() stores the new promise in
\* confirmRef and confirmState, over any promise still stored there
HandleDelete ==
    /\ Mounted
    /\ pathname \in ListPages
    /\ lists[ListLoader(pathname)].n > 0
    /\ HasFreeSlot
    /\ tasks' = [Reaped EXCEPT ![FreeSlot] = NewTask("handleDelete", "DELETE", "confirm",
                                                    <<"confirm">>)]
    /\ confirmRef' = FreeSlot
    /\ confirmState' = FreeSlot
    /\ answer' = NoAnswer
    /\ sent' = NoQuery
    /\ toast' = NoToast
    /\ UNCHANGED <<shellVars, effects, loads, formVars, lists, loading, listTotal,
                   debounceVars>>

\* handleDelete that ignores the answer of the dialog
DeleteProceeds_Always(confirmed) == TRUE

\* handleDelete: if (!confirmed) return
DeleteProceeds(confirmed) == confirmed

\* handleDelete after its await: return, or send the DELETE request
AfterConfirm(t, result) ==
    LET answered == [t EXCEPT !.log = Append(@, IF result THEN "confirmed" ELSE "cancelled")]
    IN  IF DeleteProceeds(result)
        THEN [answered EXCEPT !.pc = "mutation", !.log = Append(@, "DELETE")]
        ELSE [answered EXCEPT !.pc = "done"]

\* resolve(result) of the promise a handleDelete call awaits: the call
\* continues; a promise already settled ignores a further resolve
Resolve(t, result) ==
    IF t.pc = "confirm" THEN AfterConfirm(t, result)
    ELSE [t EXCEPT !.log = Append(@, "resolve again")]

\* the NoticeProvider: confirmRef.current, confirmState and the handler
\* calls that await its promises
Notice == [ref |-> confirmRef, state |-> confirmState, tasks |-> Reaped]

\* closeConfirm(result) that leaves confirmRef.current set
CloseConfirm_KeepRef(st, result) ==
    IF st.ref = 0 THEN st
    ELSE [ref |-> st.ref, state |-> 0,
          tasks |-> [st.tasks EXCEPT ![st.ref] = Resolve(@, result)]]

\* closeConfirm(result)
CloseConfirm(st, result) ==
    IF st.ref = 0 THEN st
    ELSE [ref |-> 0, state |-> 0,
          tasks |-> [st.tasks EXCEPT ![st.ref] = Resolve(@, result)]]

\* onOpenChange(open) of the dialog rendered with the confirmState rendered
OnOpenChange(st, open, rendered) ==
    IF ~open /\ rendered # 0 THEN CloseConfirm(st, FALSE) ELSE st

\* the handler of a dialog event leaves the NoticeProvider in state st
SetNotice(st) ==
    /\ tasks' = st.tasks
    /\ confirmRef' = st.ref
    /\ confirmState' = st.state

\* the confirm button: closeConfirm(true); closing, the dialog then reports
\* onOpenChange(false) to the handler of the same render
ConfirmAction ==
    /\ confirmState # 0
    /\ SetNotice(OnOpenChange(CloseConfirm(Notice, TRUE), FALSE, confirmState))
    /\ answer' = NoAnswer
    /\ sent' = NoQuery
    /\ toast' = NoToast
    /\ UNCHANGED <<shellVars, effects, loads, formVars, lists, loading, listTotal,
                   debounceVars>>

\* the cancel button: closeConfirm(false), then onOpenChange(false)
ConfirmCancel ==
    /\ confirmState # 0
    /\ SetNotice(OnOpenChange(CloseConfirm(Notice, FALSE), FALSE, confirmState))
    /\ answer' = NoAnswer
    /\ sent' = NoQuery
    /\ toast' = NoToast
    /\ UNCHANGED <<shellVars, effects, loads, formVars, lists, loading, listTotal,
                   debounceVars>>

\* the dialog is dismissed (Escape): onOpenChange(false) alone
ConfirmDismiss ==
    /\ confirmState # 0
    /\ SetNotice(OnOpenChange(Notice, FALSE, confirmState))
    /\ answer' = NoAnswer
    /\ sent' = NoQuery
    /\ toast' = NoToast
    /\ UNCHANGED <<shellVars, effects, loads, formVars, lists, loading, listTotal,
                   debounceVars>>

\* employees handleFormSubmit that validates the name as typed
SubmittedName_Raw(text) == text

\* handleFormSubmit: formState.name.trim()
SubmittedName(text) == Trim(text)

\* the warning handleFormSubmit raises before any request, "" if none
SubmitWarning(path, editing, name, hasProjects, projectId, employeeCount, dateCount) ==
    CASE path = "/employees" -> IF name = "" THEN "enter the employee name" ELSE ""
      [] path = "/projects" -> IF name = "" THEN "enter the project name" ELSE ""
      [] OTHER ->
            IF hasProjects /\ projectId = "" THEN "choose a project"
            ELSE IF editing
            THEN IF employeeCount = 0 \/ dateCount = 0 THEN "choose employee and date" ELSE ""
            ELSE IF employeeCount = 0 THEN "choose an employee"
            ELSE IF dateCount = 0 THEN "choose a date"
            ELSE ""

\* Array.from(new Set([...tags, tag]))
AddTag(tags, tag) ==
    IF \E i \in DOMAIN tags : tags[i] = tag THEN tags ELSE Append(tags, tag)

\* handleFormSubmit up to its await: validation, the pending tag of the
\* employees form, then PUT (edit), POST (create) or the batch POST (home).
\* The home form's project, employees and dates are inputs of the call.
HandleFormSubmit ==
    /\ Mounted
    /\ pathname \in ListPages
    /\ modal.open
    /\ HasFreeSlot
    /\ \E projectId \in {"", "p1"}, employeeCount \in {0, 1}, dateCount \in {0, 1} :
          /\ pathname # "/" => (projectId = "" /\ employeeCount = 0 /\ dateCount = 0)
          /\ LET name == IF pathname = "/employees" THEN SubmittedName(form.name)
                         ELSE Trim(form.name)
                 warning == SubmitWarning(pathname, modal.editing, name,
                                          lists["loadProjects"].n > 0, projectId,
                                          employeeCount, dateCount)
                 pendingTag == IF pathname = "/employees" THEN Trim(form.tagInput) ELSE ""
                 method == IF modal.editing THEN "PUT"
                           ELSE IF pathname = "/" THEN "BATCH" ELSE "POST"
             IN  IF warning # ""
                 THEN /\ tasks' = [Reaped EXCEPT ![FreeSlot] =
                                      NewTask("handleFormSubmit", method, "done",
                                              <<"toast warning">>)]
                      /\ toast' = [type |-> "warning", text |-> warning]
                      /\ form' = form
                 ELSE /\ tasks' = [Reaped EXCEPT ![FreeSlot] =
                                      NewTask("handleFormSubmit", method, "mutation",
                                              <<method>>)]
                      /\ toast' = NoToast
                      /\ form' = IF pendingTag # ""
                                 THEN [form EXCEPT !.tags = AddTag(@, pendingTag),
                                                   !.tagInput = ""]
                                 ELSE form
    /\ answer' = NoAnswer
    /\ sent' = NoQuery
    /\ UNCHANGED <<shellVars, effects, loads, confirmVars, modal, lists, loading, listTotal,
                   debounceVars>>

\* handleImportChange up to its await: a file that is not CSV gets a
\* warning, a CSV file is posted with fetch
HandleImportChange ==
    /\ Mounted
    /\ pathname = "/employees"
    /\ HasFreeSlot
    /\ \E isCsv \in BOOLEAN :
          IF isCsv
          THEN /\ tasks' = [Reaped EXCEPT ![FreeSlot] =
                               NewTask("handleImportChange", "IMPORT", "mutation",
                                       <<"IMPORT">>)]
               /\ toast' = NoToast
          ELSE /\ tasks' = [Reaped EXCEPT ![FreeSlot] =
                               NewTask("handleImportChange", "IMPORT", "done",
                                       <<"toast warning">>)]
               /\ toast' = [type |-> "warning", text |-> "only CSV"]
    /\ answer' = NoAnswer
    /\ sent' = NoQuery
    /\ UNCHANGED <<shellVars, effects, loads, confirmVars, formVars, lists, loading,
                   listTotal, debounceVars>>

\* handleImportChange: fetch rejects on a network error, the handler throws
\* on a status that is not ok and does not read the body
ImportResult(resp) ==
    IF resp.status = 0
    THEN [kind |-> "throw", message |-> "Failed to fetch", payload |-> Undef]
    ELSE IF ~ResponseOk(resp.status)
    THEN [kind |-> "throw", message |-> "import failed", payload |-> Undef]
    ELSE [kind |-> "return", message |-> "", payload |-> Undef]

\* the mutation as its handler sees it: apiJson, or fetch for the import;
\* the batch create reads payload.data and throws on a null payload
MutationResult(method, resp) ==
    IF method = "IMPORT" THEN ImportResult(resp)
    ELSE IF method = "BATCH" /\ ApiJson(resp).kind = "return"
            /\ ThrowsOnRead(ApiJson(resp).payload)
    THEN [kind |-> "throw", message |-> "Cannot read properties of null",
          payload |-> Undef]
    ELSE ApiJson(resp)

\* the mutation request of a handler is answered: catch block, or the
\* success path up to the await of the list loader
AnswerMutation ==
    /\ Mounted
    /\ \E s \in TaskIds :
          /\ tasks[s].pc = "mutation"
          /\ \E resp \in (IF tasks[s].method = "BATCH" THEN BatchResponses
                          ELSE MutationResponses) :
                LET t == tasks[s]
                    result == MutationResult(t.method, resp)
                    outcome == IF ContractFailed(resp) THEN "answer failed" ELSE "answer ok"
                    submit == t.kind = "handleFormSubmit"
                    early == submit /\ t.method # "BATCH"
                    counts == PayloadData(result.payload)
                IN  IF result.kind = "throw"
                    THEN /\ tasks' = [Reaped EXCEPT ![s].pc = "done",
                                                   ![s].log = @ \o <<outcome, "toast error">>]
                         /\ toast' = [type |-> "error", text |-> result.message]
                         /\ answer' = [call |-> t.method, failed |-> ContractFailed(resp)]
                         /\ sent' = NoQuery
                         /\ UNCHANGED <<loads, loading, modal>>
                    ELSE /\ tasks' = [Reaped EXCEPT
                                        ![s].pc = "list",
                                        ![s].created =
                                            IF t.method = "BATCH"
                                            THEN NumberOf(Coalesce(Get(counts, "created"), Num(0)))
                                            ELSE @,
                                        ![s].skipped =
                                            IF t.method = "BATCH"
                                            THEN NumberOf(Coalesce(Get(counts, "skipped"), Num(0)))
                                            ELSE @,
                                        ![s].log = @ \o <<outcome>>
                                                     \o (IF early THEN <<"toast success">> ELSE <<>>)
                                                     \o (IF submit THEN <<"close modal">> ELSE <<>>)
                                                     \o <<"GET list">>]
                         /\ toast' = IF early THEN [type |-> "success", text |-> "saved"]
                                     ELSE NoToast
                         /\ modal' = IF submit THEN [modal EXCEPT !.open = FALSE] ELSE modal
                         /\ loads' = loads (+) Call({ListLoader(pathname)}, s, t.closure)
                         /\ sent' = QueryOf(pathname, t.closure)
                         /\ loading' = Loading({ListLoader(pathname)})
                         /\ answer' = [call |-> t.method, failed |-> ContractFailed(resp)]
    /\ UNCHANGED <<shellVars, effects, confirmVars, form, lists, listTotal, debounceVars>>

NameValues == {"", " ", "li"}
TagInputValues == {"", " a "}

\* the rows openEditModal may be given
FormRows(path) ==
    IF path = "/employees"
    THEN {[name |-> "li", tags |-> <<>>, tagInput |-> ""],
          [name |-> "li", tags |-> <<"a">>, tagInput |-> ""]}
    ELSE {[name |-> "li", tags |-> <<>>, tagInput |-> ""]}

\* openCreateModal
OpenCreateModal ==
    /\ Mounted
    /\ pathname \in ListPages
    /\ modal' = [open |-> TRUE, editing |-> FALSE]
    /\ form' = EmptyForm
    /\ answer' = NoAnswer
    /\ sent' = NoQuery
    /\ toast' = NoToast
    /\ tasks' = Reaped
    /\ UNCHANGED <<shellVars, effects, loads, confirmVars, lists, loading,
                   listTotal, debounceVars>>

\* openEditModal(row)
OpenEditModal ==
    /\ Mounted
    /\ pathname \in ListPages
    /\ lists[ListLoader(pathname)].n > 0
    /\ modal' = [open |-> TRUE, editing |-> TRUE]
    /\ form' \in FormRows(pathname)
    /\ answer' = NoAnswer
    /\ sent' = NoQuery
    /\ toast' = NoToast
    /\ tasks' = Reaped
    /\ UNCHANGED <<shellVars, effects, loads, confirmVars, lists, loading,
                   listTotal, debounceVars>>

\* the cancel button of the modal: setIsModalOpen(false)
CloseModal ==
    /\ Mounted
    /\ modal.open
    /\ modal' = [modal EXCEPT !.open = FALSE]
    /\ answer' = NoAnswer
    /\ sent' = NoQuery
    /\ toast' = NoToast
    /\ tasks' = Reaped
    /\ UNCHANGED <<shellVars, effects, loads, confirmVars, form, lists, loading,
                   listTotal, debounceVars>>

\* the name input of the employees and projects forms
SetName ==
    /\ Mounted
    /\ pathname \in {"/employees", "/projects"}
    /\ modal.open
    /\ \E v \in NameValues \ {form.name} : form' = [form EXCEPT !.name = v]
    /\ answer' = NoAnswer
    /\ sent' = NoQuery
    /\ toast' = NoToast
    /\ tasks' = Reaped
    /\ UNCHANGED <<shellVars, effects, loads, confirmVars, modal, lists, loading,
                   listTotal, debounceVars>>

\* the tag input of the employees form: setTagInput
SetTagInput ==
    /\ Mounted
    /\ pathname = "/employees"
    /\ modal.open
    /\ \E v \in TagInputValues \ {form.tagInput} : form' = [form EXCEPT !.tagInput = v]
    /\ answer' = NoAnswer
    /\ sent' = NoQuery
    /\ toast' = NoToast
    /\ tasks' = Reaped
    /\ UNCHANGED <<shellVars, effects, loads, confirmVars, modal, lists, loading,
                   listTotal, debounceVars>>

\* reports: openDayDetail(date) up to its await
OpenDayDetail ==
    /\ Mounted
    /\ pathname = "/reports"
    /\ Unanswered("openDayDetail") < MaxLoads
    /\ lists' = [lists EXCEPT !["openDayDetail"] = Arr]
    /\ loads' = loads (+) Call({"openDayDetail"}, 0, Closure)
    /\ loading' = Loading({"openDayDetail"})
    /\ answer' = NoAnswer
    /\ sent' = NoQuery
    /\ toast' = NoToast
    /\ tasks' = Reaped
    /\ UNCHANGED <<shellVars, effects, confirmVars, formVars, listTotal,
                   debounceVars>>

\* the session of a signed-in user
LoggedIn == JsonText(Session(Str("tok1"), User(Str("ann"), Undef), Undef))

\* a signed-in user on a page, outside the page component
Shell(pages, pending) ==
    /\ PureInit
    /\ storage = LoggedIn
    /\ pathname \in pages
    /\ navTarget = "none"
    /\ ready = TRUE
    /\ effects = pending
    /\ header = NoUser
    /\ submitting = FALSE
    /\ inflight = {}
    /\ toast = NoToast
    /\ cleared = FALSE
    /\ failedMe = FALSE

\* the page component is about to run its mount effects
InitPage(pages) == Shell(pages, {"page"}) /\ FreshPage(pathname)

\* the page component with nothing under way
Resting ==
    /\ tasks = [s \in TaskIds |-> IdleTask]
    /\ loads = EmptyBag
    /\ answer = NoAnswer
    /\ sent = NoQuery
    /\ confirmRef = 0
    /\ confirmState = 0
    /\ modal = ClosedModal
    /\ form = EmptyForm
    /\ loading = [l \in AllLoaders |-> FALSE]
    /\ filters = InitialFilters(pathname)
    /\ filtersRef = FiltersKey(pathname, InitialFilters(pathname))
    /\ listPage = 1
    /\ cleanupId = 1

\* a page after its mount effects, the mount loaders answered with rows and
\* the first debounce timer pending
MountedPage(pages) ==
    /\ Shell(pages, {})
    /\ Resting
    /\ lists = [l \in AllLoaders |-> IF l \in MountLoaders(pathname) THEN Rows ELSE Arr]
    /\ listTotal = 0
    /\ timers = {NewTimer(1, [filters |-> InitialFilters(pathname), page |-> 1])}
    /\ sinceChange = 0
    /\ sinceEdit = 0
    /\ unsent = TRUE
    /\ pageReset = FALSE

\* a page after its first list request was answered with one page of rows
LoadedPage(pages) ==
    /\ Shell(pages, {})
    /\ Resting
    /\ lists = [l \in AllLoaders |->
                 IF l \in MountLoaders(pathname) \cup {ListLoader(pathname)} THEN Rows ELSE Arr]
    /\ listTotal = IF UsesMeta(pathname, ListLoader(pathname)) THEN 12 ELSE 0
    /\ timers = {}
    /\ sinceChange = DebounceMs
    /\ sinceEdit = DebounceMs
    /\ unsent = FALSE
    /\ pageReset = FALSE

\* the loaders of the four pages, from the mount of the page on
InitLoad == InitPage(ViewPages)
NextLoad ==
    \/ PageMount
    \/ Tick
    \/ TimerFire
    \/ OpenDayDetail
    \/ AnswerLoad
SpecLoad == InitLoad /\ [][NextLoad]_vars

\* the handlers of the list pages
InitView == LoadedPage(ListPages)
NextView ==
    \/ AnswerLoad
    \/ HandleDelete
    \/ ConfirmAction
    \/ ConfirmCancel
    \/ ConfirmDismiss
    \/ HandleFormSubmit
    \/ HandleImportChange
    \/ AnswerMutation
    \/ OpenCreateModal
    \/ OpenEditModal
    \/ CloseModal
    \/ SetName
    \/ SetTagInput
SpecView == InitView /\ [][NextView]_vars

\* the filter inputs and the debounce effect of the list pages
InitDebounce == MountedPage(ListPages)
NextDebounce ==
    \/ EditSearch
    \/ SelectKind
    \/ SetPageSize
    \/ PrevPage
    \/ NextPage
    \/ Tick
    \/ TimerFire
    \/ AnswerLoad
SpecDebounce == InitDebounce /\ [][NextDebounce]_vars

(***************************************************************************)
(* Properties of the page components                                       *)
(***************************************************************************)
\* an event is in the log of a handler call
Logged(log, event) == \E i \in DOMAIN log : log[i] = event

\* an event is in the log before another
LoggedBefore(log, first, second) ==
    \E i, j \in DOMAIN log : i < j /\ log[i] = first /\ log[j] = second

\* C4: every failure of an API call a view makes (network error, HTTP
\* error status or non-zero response code) results in a toast: the step that
\* handles a failed answer calls notify with type error.
C4_FailureIsNotified ==
    answer.failed => toast.type = "error"

\* C5: a handler whose mutation request succeeded has issued a fresh list
\* request when it finishes and, on the home page, a fresh month-summary
\* request; a handler whose mutation request failed issues no list request,
\* does not close the modal and shows an error toast.
C5_RefetchIffMutationSucceeded ==
    \A s \in TaskIds :
        LET t == tasks[s]
        IN  /\ (t.pc = "done" /\ Logged(t.log, "answer ok")) =>
                  /\ Logged(t.log, "GET list")
                  /\ pathname = "/" => Logged(t.log, "GET summary")
            /\ Logged(t.log, "answer failed") =>
                  /\ ~Logged(t.log, "GET list")
                  /\ ~Logged(t.log, "close modal")
                  /\ Logged(t.log, "toast error")

\* a debounce timer fires in this step: its callback runs
Fired(t) == t \in timers /\ timers' = timers \ {t}

\* C6 as stated: the debounce timer sends the list request only when 200 ms
\* have passed since the last edit of a filter input or of the page.
C6_QuietSinceLastEdit ==
    [][\A t \in timers : Fired(t) => sinceEdit = DebounceMs]_vars

\* C6 amended: at most one debounce timer is pending; a timer sends its list
\* request only when 200 ms have passed since the debounce effect last ran,
\* that is since the filter values (the employees search text compared
\* trimmed) or the page last changed; the changes since the last request
\* are answered by exactly one request, which carries the current filter
\* values and page.
C6_OneRequestAfterQuiet ==
    /\ [](Cardinality(timers) <= 1)
    /\ [](unsent <=> timers # {})
    /\ [][\A t \in timers :
            Fired(t) =>
              /\ sinceChange = DebounceMs
              /\ unsent /\ ~unsent' /\ timers' = {}
              /\ sent' = QueryOf(pathname, Closure)
              /\ BagCardinality(loads') = BagCardinality(loads) + 1]_vars

C6_Witness ==
    /\ pathname = "/employees"
    /\ sent = [keyword |-> "li", kind |-> "k", page |-> 1, pageSize |-> 10]
    /\ \E ld \in BagToSet(loads) : ld.owner = 0 /\ ld.loader = "loadEmployees"
    /\ timers = {}
    /\ sinceEdit = DebounceMs

\* C8: a handleDelete call sends its DELETE request only after the confirm
\* dialog opened for it resolved true; when the dialog is cancelled or
\* dismissed the call returns without a DELETE request, and the step sends
\* no request and leaves the lists unchanged.
C8_DeleteOnlyAfterConfirm ==
    /\ [](\A s \in TaskIds :
            LET t == tasks[s]
            IN  /\ Logged(t.log, "DELETE") =>
                      (t.kind = "handleDelete" /\ LoggedBefore(t.log, "confirmed", "DELETE"))
                /\ Logged(t.log, "cancelled") => (t.pc = "done" /\ ~Logged(t.log, "DELETE"))
                /\ (t.kind = "handleDelete" /\ t.pc = "confirm") => t.log = <<"confirm">>)
    /\ [][\A s \in TaskIds :
            (tasks[s].pc = "confirm" /\ tasks'[s].kind = "handleDelete"
                /\ Logged(tasks'[s].log, "cancelled")) =>
              (loads' = loads /\ lists' = lists /\ listTotal' = listTotal)]_vars

C8_Witness ==
    \E s \in TaskIds :
        /\ tasks[s].log = <<"confirm", "confirmed", "DELETE">>
        /\ tasks[s].pc = "mutation"
        /\ confirmRef = 0

\* handleFormSubmit is called in this step and runs in slot s
Submitted(s) == Reaped[s] = IdleTask /\ tasks'[s].kind = "handleFormSubmit"

\* C10: submitting the employee form with a name that is empty after
\* trimming, in create and in edit mode, shows a warning toast, sends no PUT
\* or POST request, leaves the modal open and leaves the employee list and
\* the form state unchanged.
C10_EmptyNameOnlyWarns ==
    [][\A s \in TaskIds :
          (Submitted(s) /\ pathname = "/employees" /\ Trim(form.name) = "") =>
            /\ toast'.type = "warning"
            /\ tasks'[s].pc = "done"
            /\ tasks'[s].log = <<"toast warning">>
            /\ \A r \in TaskIds : tasks'[r].pc # "mutation" \/ tasks[r].pc = "mutation"
            /\ loads' = loads
            /\ modal.open /\ modal' = modal
            /\ lists' = lists /\ listTotal' = listTotal
            /\ form' = form]_vars

C10_Witness ==
    \E s \in TaskIds :
        /\ pathname = "/employees"
        /\ tasks[s].kind = "handleFormSubmit"
        /\ tasks[s].log = <<"toast warning">>
        /\ toast.type = "warning"
        /\ modal = [open |-> TRUE, editing |-> TRUE]
        /\ form.name = " "

(***************************************************************************)
(* Calendar grid of the home and reports pages                             *)
(***************************************************************************)
\* the characters of the decimal digits
DigitChars == <<"0", "1", "2", "3", "4", "5", "6", "7", "8", "9">>

\* Number.prototype.toString of a non-negative integer, as its characters
RECURSIVE NumberToString(_)
NumberToString(value) ==
    IF value < 10
    THEN <<DigitChars[value + 1]>>
    ELSE NumberToString(value \div 10) \o <<DigitChars[(value % 10) + 1]>>

\* pad: value.toString().padStart(2, "0")
Pad(value) ==
    LET text == NumberToString(value)
    IN  IF Len(text) < 2 THEN <<"0">> \o text ELSE text

\* Number applied to a text of decimal digits
RECURSIVE ParseNumber(_)
ParseNumber(text) ==
    IF text = <<>>
    THEN 0
    ELSE LET last == text[Len(text)]
             digit == CHOOSE d \in 0..9 : DigitChars[d + 1] = last
         IN  10 * ParseNumber(SubSeq(text, 1, Len(text) - 1)) + digit

\* String.prototype.split("-"): the parts between the hyphens
RECURSIVE SplitHyphen(_)
SplitHyphen(text) ==
    IF \A i \in DOMAIN text : text[i] # "-"
    THEN <<text>>
    ELSE LET cut == CHOOSE i \in DOMAIN text :
                        text[i] = "-" /\ \A j \in 1..(i - 1) : text[j] # "-"
         IN  <<SubSeq(text, 1, cut - 1)>> \o SplitHyphen(SubSeq(text, cut + 1, Len(text)))

\* the Gregorian calendar of Date: leap years and the lengths of the months
IsLeapYear(year) == (year % 4 = 0 /\ year % 100 # 0) \/ year % 400 = 0

\* new Date(year, month, 0).getDate(): the last day of month 1..12
DaysInMonth(year, month) ==
    CASE month \in {4, 6, 9, 11} -> 30
      [] month = 2 -> IF IsLeapYear(year) THEN 29 ELSE 28
      [] OTHER -> 31

\* days from 1 January 1970 to 1 January of a year
DaysBeforeYear(year) ==
    365 * (year - 1970) + ((year - 1969) \div 4) - ((year - 1901) \div 100)
        + ((year - 1601) \div 400)

\* days from 1 January of a year to the first day of month 1..12
RECURSIVE DaysBeforeMonth(_, _)
DaysBeforeMonth(year, month) ==
    IF month = 1 THEN 0
    ELSE DaysBeforeMonth(year, month - 1) + DaysInMonth(year, month - 1)

\* Date.prototype.getDay of year-month-day: 0 is Sunday, 1 January 1970
\* was a Thursday
GetDay(year, month, day) ==
    (4 + DaysBeforeYear(year) + DaysBeforeMonth(year, month) + day - 1) % 7

\* new Date(year, monthIndex, 1): a month index outside 0..11 carries into
\* the year
DateOfMonth(year, monthIndex) ==
    [year |-> year + (monthIndex \div 12), month |-> (monthIndex % 12) + 1]

\* toMonthKey: "YYYY-MM"
ToMonthKey(date) == NumberToString(date.year) \o <<"-">> \o Pad(date.month)

\* parseMonthKey: the numbers of the first two parts of the key
ParseMonthKey(key) ==
    LET parts == SplitHyphen(key)
    IN  [year |-> ParseNumber(parts[1]), month |-> ParseNumber(parts[2])]

\* the count of month options: getMonthOptions of the home page offers 12
\* months, that of the reports page 24
MonthOptionCount(page) == IF page = "/" THEN 12 ELSE 24

\* getMonthOptions: the values of the options, today's month first
GetMonthOptions(today, page) ==
    [i \in 1..MonthOptionCount(page) |->
        ToMonthKey(DateOfMonth(today.year, (today.month - 1) - (i - 1)))]

\* startIndex with the week starting on Sunday, as getDay counts
StartIndex_SundayFirst(getDay) == getDay

\* startIndex: the weekday of the first of the month, the week starting on
\* Monday
StartIndex(getDay) == (getDay + 6) % 7

\* Math.ceil(cells / 7) * 7
TotalCells(cells) == ((cells + 6) \div 7) * 7

\* calendarCells: Array.from over the indices 0..totalCells-1, the cell of
\* index i at position i + 1; null outside the month
CalendarCells(selectedMonth) ==
    LET parsed == ParseMonthKey(selectedMonth)
        year == parsed.year
        month == parsed.month
        daysInMonth == DaysInMonth(year, month)
        startIndex == StartIndex(GetDay(year, month, 1))
        totalCells == TotalCells(startIndex + daysInMonth)
    IN  [position \in 1..totalCells |->
            LET day == (position - 1) - startIndex + 1
            IN  IF day < 1 \/ day > daysInMonth
                THEN Null
                ELSE [day |-> day,
                      dateKey |-> NumberToString(year) \o <<"-">> \o Pad(month)
                                    \o <<"-">> \o Pad(day)]]

\* the years in which the page is opened: leap years, common years and the
\* turn of a century
TodayYears == {2000, 2024, 2025, 2100, 2101}

Months == 1..12

CalendarPages == {"/", "/reports"}

\* the page is rendered with today's month selected
InitCalendar ==
    /\ \E year \in TodayYears, month \in Months, page \in CalendarPages :
          LET today == [year |-> year, month |-> month]
          IN  /\ fn = "calendarCells"
              /\ arg = [page |-> page, today |-> today, option |-> 1,
                        selectedMonth |-> ToMonthKey(today)]
              /\ res = CalendarCells(ToMonthKey(today))
    /\ StoreInit /\ AuthIdle /\ ViewIdle

\* handleMonthChange: the user selects an option of the month select; the
\* render computes the cells of the selected month
HandleMonthChange ==
    /\ fn = "calendarCells"
    /\ \E option \in 1..MonthOptionCount(arg.page) :
          LET next == GetMonthOptions(arg.today, arg.page)[option]
          IN  /\ arg' = [arg EXCEPT !.option = option, !.selectedMonth = next]
              /\ res' = CalendarCells(next)
    /\ UNCHANGED <<fn, storage, authVars, viewVars>>

NextCalendar == HandleMonthChange

SpecCalendar == InitCalendar /\ [][NextCalendar]_vars

\* the month of the option selected, counted back from today's month
SelectedDate == DateOfMonth(arg.today.year, arg.today.month - arg.option)

\* the positions of the cells that hold a day
DayPositions == {p \in DOMAIN res : res[p] # Null}

\* C11: for every selected month the cell list has a length that is a
\* multiple of 7, holds exactly one non-null cell for each day of the month
\* in ascending order with the dateKey YYYY-MM-DD of that month, places day
\* 1 at the index of the weekday of the 1st (Monday = 0), and has null cells
\* only before day 1 and after the last day, fewer than 7 of them trailing;
\* the grid is that of the month selected last.
C11_CalendarGrid ==
    fn = "calendarCells" =>
        LET year == SelectedDate.year
            month == SelectedDate.month
            last == DaysInMonth(year, month)
            weekday == GetDay(year, month, 1)
            monday0 == IF weekday = 0 THEN 6 ELSE weekday - 1
        IN  /\ Len(res) % 7 = 0
            /\ DayPositions = (monday0 + 1)..(monday0 + last)
            /\ \A p \in DayPositions :
                  /\ res[p].day = p - monday0
                  /\ Len(res[p].dateKey) = 10
                  /\ res[p].dateKey[5] = "-" /\ res[p].dateKey[8] = "-"
                  /\ ParseNumber(SubSeq(res[p].dateKey, 1, 4)) = year
                  /\ ParseNumber(SubSeq(res[p].dateKey, 6, 7)) = month
                  /\ ParseNumber(SubSeq(res[p].dateKey, 9, 10)) = res[p].day
            /\ Len(res) - (monday0 + last) < 7

\* February of a leap year that starts on a Thursday, selected from a later
\* month: three leading nulls, 29 days, three trailing nulls
C11_Witness ==
    /\ fn = "calendarCells"
    /\ arg.selectedMonth = <<"2", "0", "2", "4", "-", "0", "2">>
    /\ arg.option > 1
    /\ Len(res) = 35
    /\ res[4] = [day |-> 1, dateKey |-> <<"2", "0", "2", "4", "-", "0", "2", "-", "0", "1">>]
    /\ res[32].day = 29
    /\ res[3] = Null /\ res[33] = Null

(***************************************************************************)
(* Requests after a failure                                                *)
(***************************************************************************)
\* the step sends a request to /api/auth/me
SendsMe == \E r \in inflight' \ inflight : r.kind = "me"

\* the count of the calls of a loader that wait for their answer
Waiting(bag, loader) ==
    LET S == {ld \in BagToSet(bag) : ld.loader = loader}
    IN  BagCardinality([ld \in S |-> CopiesIn(ld, bag)])

\* the step that handles a failed answer sets no timer and sends no
\* request to the endpoint that failed: no call of the same loader after a
\* loader's failure, no mutation request after a mutation's failure
NoRequestOnFailedAnswer ==
    [][answer'.failed =>
          /\ timers' \subseteq timers
          /\ \A s \in TaskIds : tasks'[s].pc = "mutation" => tasks[s].pc = "mutation"
          /\ answer'.call \in Loaders(pathname) =>
                Waiting(loads', answer'.call) < Waiting(loads, answer'.call)]_vars

\* C12: a failed request is never sent again by the application on its
\* own: after a failed /api/auth/me request no /api/auth/me request is sent
\* before the user acts (submit, click, navigation) or a login submitted
\* earlier succeeds.
C12_NoAutomaticRetry ==
    [][failedMe => ~SendsMe]_vars

(***************************************************************************)
(* LoginPage: the form and handleSubmit                                    *)
(***************************************************************************)
\* the account, password and agreed states of the LoginPage
LoginForms == [account : Accounts, password : Passwords, agreed : BOOLEAN]

\* the LoginPage opened without a stored session, its form empty; arg holds
\* the form states, res the answer the handler was last given
InitLogin ==
    /\ fn = "handleSubmit"
    /\ arg = [account |-> "", password |-> "", agreed |-> FALSE]
    /\ res = Undef
    /\ StoreInit
    /\ AuthInit
    /\ pathname = "/login"
    /\ ViewIdle

\* setAccount, setPassword, setAgreed: the user changes one input
SetLoginForm ==
    /\ UserMayAct
    /\ pathname = "/login"
    /\ \E next \in LoginForms :
          /\ Cardinality({k \in DOMAIN arg : next[k] # arg[k]}) = 1
          /\ arg' = next
    /\ toast' = NoToast
    /\ failedMe' = FALSE
    /\ UNCHANGED <<fn, res, viewVars, storage, pathname, navTarget, ready, effects, header,
                   submitting, inflight, cleared>>

\* the user submits the form as it stands
SubmitLoginForm ==
    /\ HandleSubmit(arg.account, arg.password, arg.agreed)
    /\ UNCHANGED pureVars

\* the backend answers the login request of the form
AnswerLoginForm ==
    /\ \E r \in inflight, resp \in LoginResponses :
          /\ HandleSubmitAnswer(r, resp)
          /\ res' = resp
    /\ UNCHANGED <<fn, arg>>

NextLogin == RunEffects \/ SetLoginForm \/ SubmitLoginForm \/ AnswerLoginForm

SpecLogin == InitLogin /\ [][NextLogin]_vars

\* a response carries a token: apiJson returns a payload whose data (or the
\* payload itself) has a non-empty token, access_token or jwt
CarriesToken(resp) ==
    /\ ApiJson(resp).kind = "return"
    /\ ~ThrowsOnRead(ApiJson(resp).payload)
    /\ \E key \in {"token", "access_token", "jwt"} :
          Truthy(Get(PayloadData(ApiJson(resp).payload), key))

\* the step sends the login request
SendsLogin == \E r \in inflight' \ inflight : r.kind = "login"

\* the step handles the answer to the login request
AnswersLogin == \E r \in inflight \ inflight' : r.kind = "login"

\* C13: handleSubmit sends POST /api/auth/login only when the trimmed
\* account and the trimmed password are non-empty and the agreement box is
\* checked; a session is saved and the application navigates to "/" only
\* when the response carries a token; on a thrown error or a token-less
\* response the stored session is unchanged and an error toast is shown;
\* whenever the request was sent, submitting is false when the handler ends.
C13_LoginSubmit ==
    [][/\ SendsLogin =>
            /\ Trim(arg.account) # "" /\ Trim(arg.password) # "" /\ arg.agreed
            /\ submitting'
       /\ AnswersLogin =>
            /\ (storage' # storage \/ navTarget' # navTarget) =>
                  (CarriesToken(res') /\ navTarget' = "/"
                      /\ Truthy(LoadAuthToken(storage')))
            /\ ~CarriesToken(res') =>
                  (storage' = storage /\ navTarget' = navTarget /\ toast'.type = "error")
            /\ ~submitting']_vars

\* a login answered with an access_token: the session is stored, the
\* navigation to "/" is under way and the form can be submitted again
C13_Witness ==
    /\ fn = "handleSubmit"
    /\ arg = [account |-> " ann ", password |-> " pw ", agreed |-> TRUE]
    /\ toast.type = "success"
    /\ CarriesToken(res)
    /\ LoadAuthToken(storage) = Str("tok2")
    /\ navTarget = "/"
    /\ ~submitting

(***************************************************************************)
(* Header: the identity refresh                                            *)
(***************************************************************************)
\* the application with the answers to /api/auth/me kept: res holds the
\* answer the Header effect was last given
InitHeader ==
    /\ fn = "Header"
    /\ arg = Undef
    /\ res = Undef
    /\ StoreInit
    /\ AuthInit
    /\ ViewIdle

\* the backend answers an /api/auth/me request
AnswerMe ==
    /\ \E r \in inflight, resp \in MeResponses :
          /\ HeaderAnswer(r, resp)
          /\ res' = resp
    /\ UNCHANGED <<fn, arg>>

NextHeader ==
    \/ RunEffects
    \/ NavCommit
    \/ FreshLoad
    \/ LinkClick
    \/ ToggleMenu
    \/ Logout
    \/ RespondOther
    \/ AnswerMe
    \/ LoginSubmit
    \/ RespondLogin

SpecHeader == InitHeader /\ [][NextHeader]_vars

\* the Header effect runs in this step
HeaderRuns == "header" \in effects /\ effects' = {}

\* the /api/auth/me requests answered in this step
AnsweredMe ==
    {r \in inflight \ inflight' : r.kind = "me" /\ effects' = effects /\ res' # Undef}

\* an /api/auth/me request fails: apiJson throws (network error, HTTP error
\* status, non-zero code) or the answer has no body to read
MeFails(resp) == ApiJson(resp).kind = "throw" \/ ThrowsOnRead(ApiJson(resp).payload)

\* the user of a successful answer: data.user, else the data itself
AnswerUser(resp) ==
    LET data == PayloadData(ApiJson(resp).payload)
    IN  IF HasKey(data, "user") /\ Get(data, "user").t \notin {"null", "undefined"}
        THEN Get(data, "user") ELSE data

\* the tenant of a successful answer, null if it has none
AnswerTenant(resp) ==
    LET data == PayloadData(ApiJson(resp).payload)
    IN  IF HasKey(data, "tenant") /\ Get(data, "tenant").t # "undefined"
        THEN Get(data, "tenant") ELSE Null

\* a user object with a string account
HasAccount(user) ==
    /\ user.t = "object"
    /\ HasKey(user, "account")
    /\ Get(user, "account").t = "string"

MinPasswordLength == 6
MaxTenantNameLength == 100

\* String.prototype.trim on a sequence of characters
RECURSIVE TrimChars(_)
TrimChars(text) ==
    IF text = <<>> THEN text
    ELSE IF Head(text) = " " THEN TrimChars(Tail(text))
    ELSE IF text[Len(text)] = " " THEN TrimChars(SubSeq(text, 1, Len(text) - 1))
    ELSE text

\* String.prototype.includes for one character
Includes(text, char) == \E i \in DOMAIN text : text[i] = char

\* a text of count characters
Repeat(char, count) == [i \in 1..count |-> char]

\* RegisterPage.handleSubmit: the warning that ends the call before the
\* request, "" when the inputs pass; without the check of the account's
\* characters
RegisterWarning_AnyAccount(account, password, tenantName, agreed) ==
    IF TrimChars(account) = <<>> \/ TrimChars(password) = <<>>
    THEN "enter account and password"
    ELSE IF Len(TrimChars(password)) < MinPasswordLength
    THEN "password too short"
    ELSE IF ~agreed
    THEN "accept the agreements first"
    ELSE IF Len(TrimChars(tenantName)) > MaxTenantNameLength
    THEN "company name too long"
    ELSE ""

\* RegisterPage.handleSubmit: the warning that ends the call before the
\* request, "" when the inputs pass
RegisterWarning(account, password, tenantName, agreed) ==
    IF TrimChars(account) = <<>> \/ TrimChars(password) = <<>>
    THEN "enter account and password"
    ELSE IF Includes(TrimChars(account), "/") \/ Includes(TrimChars(account), "@")
    THEN "account has / or @"
    ELSE IF Len(TrimChars(password)) < MinPasswordLength
    THEN "password too short"
    ELSE IF ~agreed
    THEN "accept the agreements first"
    ELSE IF Len(TrimChars(tenantName)) > MaxTenantNameLength
    THEN "company name too long"
    ELSE ""

\* the body of POST /api/auth/register: tenant_name is set when not empty
RegisterBody(account, password, tenantName) ==
    [key \in {"account", "password"}
              \cup (IF TrimChars(tenantName) # <<>> THEN {"tenant_name"} ELSE {}) |->
        CASE key = "account" -> TrimChars(account)
          [] key = "password" -> TrimChars(password)
          [] OTHER -> TrimChars(tenantName)]

\* RegisterPage.handleSubmit up to the request, on the states of the form
RegisterSubmit(account, password, tenantName, agreed) ==
    /\ UserMayAct
    /\ pathname = "/register"
    /\ ~submitting
    /\ HasRoom
    /\ IF RegisterWarning(account, password, tenantName, agreed) # ""
       THEN /\ toast' = [type |-> "warning",
                         text |-> RegisterWarning(account, password, tenantName, agreed)]
            /\ UNCHANGED <<submitting, inflight>>
       ELSE /\ submitting' = TRUE
            /\ inflight' = inflight \cup
                  {Request("register", "json", RegisterBody(account, password, tenantName))}
            /\ toast' = NoToast
    /\ failedMe' = FALSE
    /\ UNCHANGED <<viewVars, storage, pathname, navTarget, ready, effects, header, cleared>>

\* RegisterPage.handleSubmit from the answer on: try / catch / finally
RegisterAnswer(r, resp) ==
    /\ r.kind = "register"
    /\ inflight' = inflight \ {r}
    /\ submitting' = FALSE
    /\ LET result == ApiJson(resp)
           data == PayloadData(result.payload)
           token == AnswerToken(data)
       IN  IF result.kind = "throw"
           THEN /\ toast' = [type |-> "error", text |-> result.message]
                /\ UNCHANGED <<storage, cleared, navTarget>>
           ELSE IF ThrowsOnRead(result.payload)
           THEN /\ toast' = [type |-> "error", text |-> "TypeError"]
                /\ UNCHANGED <<storage, cleared, navTarget>>
           ELSE IF ~Truthy(token)
           THEN /\ toast' = [type |-> "error", text |-> "register failed"]
                /\ UNCHANGED <<storage, cleared, navTarget>>
           ELSE /\ storage' = SaveAuthSession(
                                 Session(token,
                                         Coalesce(Get(data, "user"),
                                                  Obj({<<"account", [Str("") EXCEPT !.s = r.closure["account"]]>>})),
                                         Get(data, "tenant")))
                /\ cleared' = FALSE
                /\ toast' = [type |-> "success", text |-> "registered"]
                /\ navTarget' = "/"
    /\ UNCHANGED <<viewVars, pathname, ready, effects, header, failedMe>>

\* the texts the user may type
RegisterAccounts ==
    {<<>>, <<" ">>, <<"a", "n", "n">>, <<" ", "a", "n", "n", " ">>, <<"a", "/", "b">>,
     <<" ", "a", "@", "b">>}
RegisterPasswords ==
    {<<>>, <<" ">>, Repeat("1", MinPasswordLength - 1),
     <<" ">> \o Repeat("1", MinPasswordLength - 1) \o <<" ">>,
     Repeat("1", MinPasswordLength), <<" ">> \o Repeat("1", MinPasswordLength)}
TenantNames ==
    {<<>>, <<" ">>, <<"c", "o">>, Repeat("c", MaxTenantNameLength),
     <<" ">> \o Repeat("c", MaxTenantNameLength) \o <<" ">>,
     Repeat("c", MaxTenantNameLength + 1)}

\* the account, password, tenantName and agreed states of the RegisterPage
RegisterForms ==
    [account : RegisterAccounts, password : RegisterPasswords, tenantName : TenantNames,
     agreed : BOOLEAN]

\* the RegisterPage opened without a stored session, its form empty; arg
\* holds the form states, res the answer the handler was last given
InitRegister ==
    /\ fn = "RegisterPage.handleSubmit"
    /\ arg = [account |-> <<>>, password |-> <<>>, tenantName |-> <<>>, agreed |-> FALSE]
    /\ res = Undef
    /\ StoreInit
    /\ AuthInit
    /\ pathname = "/register"
    /\ ViewIdle

\* setAccount, setPassword, setTenantName, setAgreed: the user changes one
\* input
SetRegisterForm ==
    /\ UserMayAct
    /\ pathname = "/register"
    /\ \E next \in RegisterForms :
          /\ Cardinality({k \in DOMAIN arg : next[k] # arg[k]}) = 1
          /\ arg' = next
    /\ toast' = NoToast
    /\ failedMe' = FALSE
    /\ UNCHANGED <<fn, res, viewVars, storage, pathname, navTarget, ready, effects, header,
                   submitting, inflight, cleared>>

\* the user submits the form as it stands
SubmitRegisterForm ==
    /\ RegisterSubmit(arg.account, arg.password, arg.tenantName, arg.agreed)
    /\ UNCHANGED pureVars

\* the backend answers the register request
AnswerRegisterForm ==
    /\ \E r \in inflight, resp \in LoginResponses :
          /\ RegisterAnswer(r, resp)
          /\ res' = resp
    /\ UNCHANGED <<fn, arg>>

NextRegister == RunEffects \/ SetRegisterForm \/ SubmitRegisterForm \/ AnswerRegisterForm

SpecRegister == InitRegister /\ [][NextRegister]_vars

\* the first of the checks of the register form that fails, 0 if none:
\* 1 account or password empty, 2 account has "/" or "@", 3 password shorter
\* than 6, 4 agreement not checked, 5 tenant name longer than 100
FirstViolation(inputs) ==
    LET account == TrimChars(inputs.account)
        password == TrimChars(inputs.password)
        failing == {n \in 1..5 :
                      \/ n = 1 /\ (Len(account) = 0 \/ Len(password) = 0)
                      \/ n = 2 /\ \E i \in DOMAIN account : account[i] \in {"/", "@"}
                      \/ n = 3 /\ Len(password) < MinPasswordLength
                      \/ n = 4 /\ ~inputs.agreed
                      \/ n = 5 /\ Len(TrimChars(inputs.tenantName)) > MaxTenantNameLength}
    IN  IF failing = {} THEN 0 ELSE CHOOSE n \in failing : \A m \in failing : n <= m

WarningTexts ==
    <<"enter account and password", "account has / or @", "password too short",
      "accept the agreements first", "company name too long">>

\* the step sends the register request
SentRegister == {r \in inflight' \ inflight : r.kind = "register"}

\* the step handles the answer to the register request
AnswersRegister == \E r \in inflight \ inflight' : r.kind = "register"

\* C15: handleSubmit sends POST /api/auth/register only if the trimmed
\* account and password are non-empty, the account has neither "/" nor "@",
\* the trimmed password has at least 6 characters, the agreement is checked
\* and the trimmed tenant name has at most 100 characters; the warning toast
\* of a call is that of the first check that fails, in this order, and the
\* call sends no request; tenant_name is in the body only when non-empty;
\* a session is saved only when the response carries a token.
C15_RegisterSubmit ==
    [][/\ \A r \in SentRegister :
            /\ FirstViolation(arg) = 0
            /\ toast'.type # "warning"
            /\ r.closure["account"] = TrimChars(arg.account)
            /\ r.closure["password"] = TrimChars(arg.password)
            /\ "tenant_name" \in DOMAIN r.closure =>
                  (TrimChars(arg.tenantName) # <<>>
                      /\ r.closure["tenant_name"] = TrimChars(arg.tenantName))
       /\ (pathname = "/register" /\ toast'.type = "warning") =>
            /\ FirstViolation(arg) # 0
            /\ toast'.text = WarningTexts[FirstViolation(arg)]
            /\ inflight' = inflight /\ storage' = storage /\ ~submitting'
       /\ (AnswersRegister /\ storage' # storage) =>
            (CarriesToken(res') /\ Truthy(LoadAuthToken(storage')))]_vars

\* a form that passes every check at its limit (password of 6 characters,
\* tenant name of 100 characters between spaces) was sent and answered
\* with a token
C15_Witness ==
    /\ fn = "RegisterPage.handleSubmit"
    /\ toast.type = "success"
    /\ Len(arg.tenantName) = MaxTenantNameLength + 2
    /\ Len(TrimChars(arg.password)) = MinPasswordLength
    /\ arg.agreed
    /\ CarriesToken(res)
    /\ LoadAuthToken(storage) = Str("tok1")
    /\ navTarget = "/"

(***************************************************************************)
(* NoticeProvider.confirm                                                  *)
(***************************************************************************)
\* the resolve calls on the promise of a handler call, in order
Resolutions(t) ==
    SelectSeq(t.log, LAMBDA e : e \in {"confirmed", "cancelled", "resolve again"})

\* the promise of the handler call in slot s is resolved with true / with
\* false in this step
ResolvesTrue(s) == ~Logged(Reaped[s].log, "confirmed") /\ Logged(tasks'[s].log, "confirmed")
ResolvesFalse(s) == ~Logged(Reaped[s].log, "cancelled") /\ Logged(tasks'[s].log, "cancelled")

\* C16: the promise of a confirm() call is resolved at most once; it
\* resolves true only by the confirm button and false by the cancel button
\* or the dismissal of the dialog; the closeConfirm call that follows the
\* first for the same dialog changes nothing; the dialog is open exactly
\* while a confirm state with an unresolved promise exists.
C16_ConfirmResolvesOnce ==
    /\ [](\A s \in TaskIds : Len(Resolutions(tasks[s])) <= 1)
    /\ [](confirmState # 0 <=>
            (confirmRef # 0 /\ confirmRef = confirmState /\ tasks[confirmRef].pc = "confirm"))
    /\ [][\A s \in TaskIds :
            /\ ResolvesTrue(s) => (ConfirmAction /\ confirmState = s)
            /\ ResolvesFalse(s) => ((ConfirmCancel \/ ConfirmDismiss) /\ confirmState = s)
            /\ (ConfirmAction /\ confirmState = s) => ResolvesTrue(s)
            /\ ((ConfirmCancel \/ ConfirmDismiss) /\ confirmState = s) => ResolvesFalse(s)
            /\ (ResolvesTrue(s) \/ ResolvesFalse(s)) => (confirmRef' = 0 /\ confirmState' = 0)]_vars

\* the confirm button was clicked: the promise resolved true once, the
\* DELETE request is under way and the dialog is closed
C16_Witness ==
    \E s \in TaskIds :
        /\ Resolutions(tasks[s]) = <<"confirmed">>
        /\ tasks[s].pc = "mutation"
        /\ confirmRef = 0
        /\ confirmState = 0
        /\ toast = NoToast


(***************************************************************************)
(* Filter changes and pagination: the home and the employees page, where   *)
(* the user may change a select filter while a list request is unanswered  *)
(***************************************************************************)
PagedPages == {"/", "/employees"}

InitPaging == MountedPage(PagedPages)
NextPaging ==
    \/ Tick
    \/ TimerFire
    \/ EditSearch
    \/ SelectKindWhile(MaxLoads + 1)
    \/ SetPageSize
    \/ PrevPage
    \/ NextPage
    \/ AnswerLoad
SpecPaging == InitPaging /\ [][NextPaging]_vars

\* the filter key changes in this step while the page is not 1
KeyChangesOffPageOne == filtersRef' # filtersRef /\ listPage # 1

\* C17: on the home and employees pages, when the filter key changes while
\* the current page is not 1, the page is set to 1 and no list request is
\* sent or scheduled for the new filters with the stale page number; the
\* next list request sent carries the new filters with page 1.
C17_FilterChangeResetsPage ==
    [][/\ KeyChangesOffPageOne =>
            /\ listPage' = 1
            /\ Waiting(loads', ListLoader(pathname)) = Waiting(loads, ListLoader(pathname))
            /\ sent' = NoQuery
            /\ \A t \in timers' : t.closure = [filters |-> filters', page |-> 1]
       /\ \A t \in timers :
            (Fired(t) /\ pageReset) =>
                sent' = QueryOf(pathname, [filters |-> filters, page |-> 1])]_vars


(***************************************************************************)
(* The toast of the batch create: handleFormSubmit of the home page        *)
(***************************************************************************)
\* the handler call in slot s is a batch create whose POST was answered
\* without a throw
BatchCreated(s) ==
    /\ pathname = "/"
    /\ tasks[s].method = "BATCH"
    /\ Logged(tasks[s].log, "GET list")

\* the toast entries of a log
Toasts(log) ==
    SelectSeq(log, LAMBDA e : e \in {"toast success", "toast error", "toast warning"})

\* the type of toast the counts of a batch answer call for
BatchToastType(created, skipped) ==
    IF skipped = 0 THEN "success"
    ELSE IF created = 0 THEN "error"
    ELSE "warning"

\* C18: after a successful POST /api/time-entries/batch the handler closes
\* the modal, refetches the entry list and then the month summary, and only
\* then shows exactly one toast: success when skipped = 0, error when
\* skipped > 0 and created = 0, warning when both are above 0.
C18_BatchToast ==
    /\ [](\A s \in TaskIds :
            BatchCreated(s) =>
              LET t == tasks[s]
                  type == BatchToastType(t.created, t.skipped)
                  steps == <<"BATCH", "answer ok", "close modal", "GET list", "GET summary",
                             "toast " \o type>>
              IN  /\ t.pc \in {"list", "summary", "done"}
                  /\ t.pc = "list" => t.log = SubSeq(steps, 1, 4)
                  /\ t.pc = "summary" => t.log = SubSeq(steps, 1, 5)
                  /\ t.pc = "done" => (t.log = steps /\ Len(Toasts(t.log)) = 1))
    /\ [][\A s \in TaskIds :
            /\ (~BatchCreated(s) /\ BatchCreated(s)') =>
                  (~modal'.open /\ toast' = NoToast)
            /\ (BatchCreated(s) /\ tasks[s].pc # "done" /\ tasks'[s].pc = "done") =>
                  toast'.type = BatchToastType(tasks[s].created, tasks[s].skipped)]_vars

C18_Witness ==
    \E s \in TaskIds :
        /\ BatchCreated(s)
        /\ tasks[s].pc = "done"
        /\ tasks[s].created = 1
        /\ tasks[s].skipped = 1
        /\ toast.type = "warning"
        /\ ~modal.open


(***************************************************************************)
(* ProjectsPage: the date axis of the Gantt chart and the bar of a         *)
(* project.  A Date is the number of hours of local time since the local   *)
(* midnight that begins the first day of today's month; a day is counted   *)
(* from that day, which is day 0.                                          *)
(***************************************************************************)
DAY_H == 24
MIN_GANTT_DAYS == 31
GANTT_ZOOM_STEP_DAYS == 7
MAX_GANTT_ZOOM_OUT == 8

Max(a, b) == IF a >= b THEN a ELSE b
Abs(n) == IF n < 0 THEN 0 - n ELSE n

NullDate == [t |-> "null", h |-> 0]
DateAt(hours) == [t |-> "date", h |-> hours]

\* a planned date as the project row carries it: no value, a date string
\* "YYYY-MM-DD", or a date-time string without offset "YYYY-MM-DDT00:00:00"
NoValue == [form |-> "none", day |-> 0]

\* parseDate: new Date(value) reads a date string as midnight UTC and a
\* date-time string without offset as local time
ParseDate(value, tz) ==
    CASE value.form = "none" -> NullDate
      [] value.form = "date" -> DateAt(value.day * DAY_H + tz)
      [] OTHER -> DateAt(value.day * DAY_H)

\* startOfDay
StartOfDay(hours) == (hours \div DAY_H) * DAY_H

\* addDays
AddDays(hours, amount) == hours + amount * DAY_H

\* diffDays
DiffDays(start, end) == (StartOfDay(end) - StartOfDay(start)) \div DAY_H

\* a month range that is not extended to 31 days
GetCurrentMonthRange_NoMin(base) ==
    [start |-> 0, end |-> AddDays(0, DaysInMonth(base.year, base.month) - 1)]

\* getCurrentMonthRange
GetCurrentMonthRange(base) ==
    LET start == StartOfDay(0)
        end == StartOfDay(AddDays(0, DaysInMonth(base.year, base.month) - 1))
        rangeDays == DiffDays(start, end) + 1
    IN  [start |-> start,
         end |-> IF rangeDays < MIN_GANTT_DAYS
                 THEN AddDays(end, MIN_GANTT_DAYS - rangeDays)
                 ELSE end]

\* applyGanttZoom
ApplyGanttZoom(range, zoomSteps) ==
    LET offset == Abs(zoomSteps) * GANTT_ZOOM_STEP_DAYS
    IN  IF zoomSteps = 0 THEN range
        ELSE IF zoomSteps > 0
        THEN [start |-> AddDays(range.start, offset), end |-> AddDays(range.end, 0 - offset)]
        ELSE [start |-> AddDays(range.start, 0 - offset), end |-> AddDays(range.end, offset)]

\* the row of a project in the chart
GanttRow(project, ganttRange, tz) ==
    LET rawStart == ParseDate(project.start, tz)
        rawEnd == ParseDate(project.end, tz)
        fallback == IF rawStart # NullDate THEN rawStart ELSE rawEnd
        firstStart == IF rawStart # NullDate THEN rawStart ELSE fallback
        firstEnd == IF rawEnd # NullDate THEN rawEnd ELSE fallback
        hasRange == firstStart # NullDate /\ firstEnd # NullDate
        swap == hasRange /\ firstEnd.h < firstStart.h
        barStart == IF swap THEN firstEnd ELSE firstStart
        barEnd == IF swap THEN firstStart ELSE firstEnd
        visibleStart == IF barStart.h < ganttRange.start THEN ganttRange.start ELSE barStart.h
        visibleEnd == IF barEnd.h > ganttRange.end THEN ganttRange.end ELSE barEnd.h
        isVisible == hasRange /\ visibleEnd >= visibleStart
    IN  [hasRange |-> hasRange,
         barStart |-> barStart,
         barEnd |-> barEnd,
         isClippedLeft |-> hasRange /\ barStart.h < ganttRange.start,
         isClippedRight |-> hasRange /\ barEnd.h > ganttRange.end,
         isVisible |-> isVisible,
         offsetDays |-> IF isVisible THEN DiffDays(ganttRange.start, visibleStart) ELSE 0,
         barDays |-> IF isVisible THEN Max(1, DiffDays(visibleStart, visibleEnd) + 1) ELSE 0]

\* what a render of the page derives from today, the ganttZoom state and a
\* project
GanttView(a) ==
    LET baseGanttRange == GetCurrentMonthRange(a.today)
        baseGanttDays == Max(1, DiffDays(baseGanttRange.start, baseGanttRange.end) + 1)
        maxZoomInSteps ==
            Max(0, (baseGanttDays - MIN_GANTT_DAYS) \div (2 * GANTT_ZOOM_STEP_DAYS))
        ganttZoomSteps == Max(0 - MAX_GANTT_ZOOM_OUT, Min(a.ganttZoom, maxZoomInSteps))
        ganttRange == ApplyGanttZoom(baseGanttRange, ganttZoomSteps)
    IN  [baseGanttDays |-> baseGanttDays,
         maxZoomInSteps |-> maxZoomInSteps,
         ganttZoomSteps |-> ganttZoomSteps,
         ganttRange |-> ganttRange,
         ganttTotalDays |-> Max(1, DiffDays(ganttRange.start, ganttRange.end) + 1),
         canZoomIn |-> ganttZoomSteps < maxZoomInSteps,
         canZoomOut |-> ganttZoomSteps > 0 - MAX_GANTT_ZOOM_OUT,
         row |-> GanttRow(a.project, ganttRange, a.tz)]

\* today, the browser's offset from UTC in hours, and the planned dates of
\* the project the list request was answered with
GanttTodays ==
    {[year |-> 2024, month |-> 2], [year |-> 2025, month |-> 2],
     [year |-> 2025, month |-> 4], [year |-> 2025, month |-> 5]}
TimeZones == {0 - 5, 0, 8}
PlannedDays == {0 - 57, 0 - 56, 0, 15, 30, 31, 86, 87}
PlannedValues ==
    {NoValue} \cup {[form |-> f, day |-> d] : f \in {"date", "datetime"}, d \in PlannedDays}

InitGantt ==
    /\ \E today \in GanttTodays, tz \in TimeZones, start \in PlannedValues,
          end \in PlannedValues :
          /\ fn = "gantt"
          /\ arg = [today |-> today, tz |-> tz, ganttZoom |-> 0,
                    project |-> [start |-> start, end |-> end]]
          /\ res = GanttView(arg)
    /\ StoreInit /\ AuthIdle /\ ViewIdle

\* a render after the state changed
GanttRender(a) ==
    /\ arg' = a
    /\ res' = GanttView(a)
    /\ UNCHANGED <<fn, storage, authVars, viewVars>>

\* a click on the "-" button, which does nothing while the button is disabled
ZoomOut ==
    /\ fn = "gantt"
    /\ GanttRender([arg EXCEPT !.ganttZoom =
                      IF res.canZoomOut THEN Max(@ - 1, 0 - MAX_GANTT_ZOOM_OUT) ELSE @])

\* a click on the "+" button
ZoomIn ==
    /\ fn = "gantt"
    /\ GanttRender([arg EXCEPT !.ganttZoom =
                      IF res.canZoomIn THEN Min(@ + 1, res.maxZoomInSteps) ELSE @])

\* a click on the reset button
ResetZoom ==
    /\ fn = "gantt"
    /\ GanttRender([arg EXCEPT !.ganttZoom = IF res.ganttZoomSteps # 0 THEN 0 ELSE @])

NextGantt == ZoomOut \/ ZoomIn \/ ResetZoom

SpecGantt == InitGantt /\ [][NextGantt]_vars

\* the day a Date lies in
DayOf(hours) == hours \div DAY_H

\* the days of the visible range
VisibleDays == DayOf(res.ganttRange.start)..DayOf(res.ganttRange.end)

\* the last day of the base range: the last day of today's month, or the
\* 31st day from its first
BaseLastDay == Max(DaysInMonth(arg.today.year, arg.today.month), MIN_GANTT_DAYS) - 1

\* C19: whatever zoom-out, zoom-in and reset clicks were made, the effective
\* zoom step lies between -8 and maxZoomInSteps, each step moves both ends of
\* the base range by 7 days so that the visible range has baseDays - 14 * step
\* days and at least 31, each zoom button is disabled exactly at its bound,
\* and a reset click gives the base range: the current month, extended to 31
\* days.
C19_GanttZoomBounds ==
    /\ [](fn = "gantt" =>
            LET step == res.ganttZoomSteps
            IN  /\ step \in (0 - MAX_GANTT_ZOOM_OUT)..res.maxZoomInSteps
                /\ res.ganttRange.start = GANTT_ZOOM_STEP_DAYS * step * DAY_H
                /\ res.ganttRange.end = (BaseLastDay - GANTT_ZOOM_STEP_DAYS * step) * DAY_H
                /\ Cardinality(VisibleDays) = res.baseGanttDays - 14 * step
                /\ res.ganttTotalDays = Cardinality(VisibleDays)
                /\ res.ganttTotalDays >= 31
                /\ ~res.canZoomIn <=> step = res.maxZoomInSteps
                /\ ~res.canZoomOut <=> step = 0 - MAX_GANTT_ZOOM_OUT)
    /\ [][ResetZoom => res'.ganttRange = [start |-> 0, end |-> BaseLastDay * DAY_H]]_vars

C19_Witness ==
    /\ fn = "gantt"
    /\ arg.today = [year |-> 2025, month |-> 2]
    /\ res.ganttZoomSteps = 0 - MAX_GANTT_ZOOM_OUT
    /\ ~res.canZoomOut
    /\ res.ganttTotalDays = 143


\* the project has at least one planned date
HasPlannedDate == arg.project.start # NoValue \/ arg.project.end # NoValue

\* the calendar days of the planned dates, the single date standing for both
PlannedDaySet ==
    {DayOf(ParseDate(v, arg.tz).h) : v \in {arg.project.start, arg.project.end} \ {NoValue}}

\* the planned day range: from the earlier to the later day
FirstPlannedDay == CHOOSE d \in PlannedDaySet : \A e \in PlannedDaySet : d <= e
LastPlannedDay == CHOOSE d \in PlannedDaySet : \A e \in PlannedDaySet : d >= e

\* the row draws a bar / shows the out-of-range label
BarDrawn == res.row.hasRange /\ res.row.isVisible
OutOfRangeLabel == res.row.hasRange /\ ~res.row.isVisible

\* C20: for a project with at least one planned date a bar is drawn if and
\* only if the planned day range shares a calendar day with the visible
\* range, and otherwise the out-of-range label is shown; a bar that is drawn
\* lies inside the axis (offsetDays >= 0, barDays >= 1, offsetDays + barDays
\* <= ganttTotalDays) and has the left / right clip marker exactly when the
\* project starts before / ends after the visible range.
C20_GanttBarPlacement ==
    (fn = "gantt" /\ HasPlannedDate) =>
        /\ BarDrawn <=> (FirstPlannedDay..LastPlannedDay) \cap VisibleDays # {}
        /\ OutOfRangeLabel <=> ~BarDrawn
        /\ BarDrawn =>
              /\ res.row.offsetDays >= 0
              /\ res.row.barDays >= 1
              /\ res.row.offsetDays + res.row.barDays <= res.ganttTotalDays
              /\ res.row.isClippedLeft <=> FirstPlannedDay < DayOf(res.ganttRange.start)
              /\ res.row.isClippedRight <=> LastPlannedDay > DayOf(res.ganttRange.end)


(***************************************************************************)
(* ReportsPage: buildProjectDateMap, the names of the projects planned on  *)
(* each day of the selected month.  A Date of local midnight is the record *)
(* of its year, month (1..12) and day; a planned date text is the sequence *)
(* of the numbers of its parts between hyphens, as split("-").map(Number)  *)
(* gives them, <<>> for undefined and the empty text.                      *)
(***************************************************************************)
NotANumber == 0 - 1
NoText == <<>>

\* Op(value), the value taken once
With(value, Op(_)) == CHOOSE result \in {Op(v) : v \in {value}} : TRUE

\* new Date(year, monthIndex, day): a month index outside 0..11 carries into
\* the year, day 0 is the last day of the month before, and a day after the
\* end of the month carries into the next month
NewDate(year, monthIndex, day) ==
    LET first == DateOfMonth(year, monthIndex)
        before == DateOfMonth(year, monthIndex - 1)
        after == DateOfMonth(year, monthIndex + 1)
        length == DaysInMonth(first.year, first.month)
    IN  IF day < 1
        THEN [year |-> before.year, month |-> before.month,
              day |-> DaysInMonth(before.year, before.month) + day]
        ELSE IF day > length
        THEN [year |-> after.year, month |-> after.month, day |-> day - length]
        ELSE [year |-> first.year, month |-> first.month, day |-> day]

\* the order of two Dates: a number that grows with the date
DateOrder(date) == (date.year * 12 + date.month) * 32 + date.day

\* toDateKey: "YYYY-MM-DD"
ToDateKey(date) ==
    NumberToString(date.year) \o <<"-">> \o Pad(date.month) \o <<"-">> \o Pad(date.day)

\* parseDateOnly
ParseDateOnly(value) ==
    IF value = NoText THEN NullDate
    ELSE IF Len(value) # 3 THEN NullDate
    ELSE IF \E i \in 1..3 : value[i] \in {0, NotANumber} THEN NullDate
    ELSE NewDate(value[1], value[2] - 1, value[3])

\* the planned range of a project without the swap of a reversed range
PlannedRange_NoSwap(project) ==
    LET startRaw == ParseDateOnly(project.plannedStartDate)
        endRaw == ParseDateOnly(project.plannedEndDate)
        fallback == IF startRaw # NullDate THEN startRaw ELSE endRaw
    IN  [start |-> IF startRaw # NullDate THEN startRaw ELSE fallback,
         end |-> IF endRaw # NullDate THEN endRaw ELSE fallback]

\* the planned range of a project: the date that is set stands for the one
\* that is not, and a reversed range is swapped
PlannedRange(project) ==
    LET startRaw == ParseDateOnly(project.plannedStartDate)
        endRaw == ParseDateOnly(project.plannedEndDate)
        fallback == IF startRaw # NullDate THEN startRaw ELSE endRaw
        start == IF startRaw # NullDate THEN startRaw ELSE fallback
        end == IF endRaw # NullDate THEN endRaw ELSE fallback
    IN  IF start # NullDate /\ end # NullDate /\ DateOrder(end) < DateOrder(start)
        THEN [start |-> end, end |-> start]
        ELSE [start |-> start, end |-> end]

\* the values the cursor takes in the while loop for a project: from
\* rangeStart on, a day later each time, while it is not after rangeEnd
CursorDates(project, year, month) ==
    LET monthStart == NewDate(year, month - 1, 1)
        monthEnd == NewDate(year, month, 0)
        Clipped(range) ==
            [start |-> IF DateOrder(range.start) < DateOrder(monthStart)
                       THEN monthStart ELSE range.start,
             end |-> IF DateOrder(range.end) > DateOrder(monthEnd)
                     THEN monthEnd ELSE range.end]
        Visited(range) ==
            IF range.start = NullDate \/ range.end = NullDate THEN {}
            ELSE LET rangeStart == Clipped(range).start
                     rangeEnd == Clipped(range).end
                 IN  {cursor \in {NewDate(rangeStart.year, rangeStart.month - 1,
                                          rangeStart.day + i) : i \in 0..31} :
                         DateOrder(cursor) <= DateOrder(rangeEnd)}
    IN  With(PlannedRange(project), Visited)

\* the pushes of forEach: the index of the project and the date key
Pushes(projects, year, month) ==
    UNION {{<<i, ToDateKey(cursor)>> : cursor \in CursorDates(projects[i], year, month)} :
              i \in DOMAIN projects}

\* buildProjectDateMap: the Map as a function from its keys; the names under
\* a key are pushed in the order in which forEach visits the projects
BuildProjectDateMap(projects, year, month) ==
    LET MapOf(pushes) ==
            [dateKey \in {push[2] : push \in pushes} |->
                LET listed == SelectSeq([i \in DOMAIN projects |-> i],
                                        LAMBDA i : <<i, dateKey>> \in pushes)
                IN  [n \in DOMAIN listed |-> projects[listed[n]].name]]
    IN  With(Pushes(projects, year, month), MapOf)

\* "YYYY-MM-DD" of a year, a month and a day
DateText(year, month, day) ==
    NumberToString(year) \o <<"-">> \o Pad(month) \o <<"-">> \o Pad(day)

\* the planned dates a project row may carry: none, dates before, in and
\* after February 2024, "2024-02", and "2024-02-10T00:00:00"
MaxProjects == 2
PlannedStarts ==
    {NoText, <<2024, 1, 31>>, <<2024, 2, 10>>, <<2024, 3, 1>>, <<2024, 2, NotANumber>>}
PlannedEnds == {NoText, <<2024, 2, 9>>, <<2024, 2>>}
ProjectRows ==
    [name : {"a", "b"}, plannedStartDate : PlannedStarts, plannedEndDate : PlannedEnds]
ProjectLists == UNION {[1..n -> ProjectRows] : n \in 0..MaxProjects}
ReportMonths ==
    {[year |-> 2024, month |-> 1], [year |-> 2024, month |-> 2], [year |-> 2024, month |-> 3]}

\* the projectMap memo of the page
ProjectMap(a) == BuildProjectDateMap(a.projects, a.selected.year, a.selected.month)

InitProjectMap ==
    /\ \E projects \in ProjectLists :
          /\ fn = "buildProjectDateMap"
          /\ arg = [projects |-> projects, selected |-> [year |-> 2024, month |-> 2]]
          /\ res = ProjectMap(arg)
    /\ StoreInit /\ AuthIdle /\ ViewIdle

\* setSelectedMonth: the month select of the reports page
SetSelectedMonth ==
    /\ fn = "buildProjectDateMap"
    /\ \E selected \in ReportMonths \ {arg.selected} :
          /\ arg' = [arg EXCEPT !.selected = selected]
          /\ res' = ProjectMap(arg')
    /\ UNCHANGED <<fn, storage, authVars, viewVars>>

NextProjectMap == SetSelectedMonth

SpecProjectMap == InitProjectMap /\ [][NextProjectMap]_vars

\* a planned date as a number that orders the dates, 0 when the text is not
\* three positive numbers joined by hyphens
PlannedNumber(text) ==
    IF Len(text) = 3 /\ \A i \in 1..3 : text[i] > 0
    THEN 10000 * text[1] + 100 * text[2] + text[3]
    ELSE 0

\* the project is planned on the day year-month-day
PlannedOn(project, year, month, day) ==
    LET dates == {PlannedNumber(project.plannedStartDate),
                  PlannedNumber(project.plannedEndDate)} \ {0}
        number == 10000 * year + 100 * month + day
    IN  /\ dates # {}
        /\ \E first \in dates : first <= number
        /\ \E last \in dates : number <= last

\* the names of the projects planned on a day, in the order of the list
NamesOn(projects, year, month, day) ==
    LET planned == SelectSeq(projects, LAMBDA p : PlannedOn(p, year, month, day))
    IN  [i \in DOMAIN planned |-> planned[i].name]

MaxDisplayNameLength == 10

\* String.prototype.length of the texts the display-name input may hold
NameLength(text) ==
    CASE text = "" -> 0
      [] text = "li" -> 2
      [] text = "elevenchars" -> 11

DisplayNames == {"", "li", " li ", "elevenchars"}

\* no handleDisplayNameSubmit call is waiting for its answer
NoRename == [user |-> Null, name |-> ""]

\* { ...object, key: value }
Spread(object, key, value) ==
    Obj({p \in object.m : p[1] # key} \cup {<<key, value>>})

\* Header.handleDisplayNameSubmit up to the request, on the text of the
\* input; one call at a time
HandleDisplayNameSubmit(displayName) ==
    /\ UserMayAct
    /\ HeaderRendered
    /\ HasRoom
    /\ ~\E r \in inflight : r.kind = "rename"
    /\ IF ~Truthy(header.user)
       THEN /\ toast' = [type |-> "warning", text |-> "user unavailable"]
            /\ UNCHANGED <<inflight, arg>>
       ELSE IF NameLength(Trim(displayName)) > MaxDisplayNameLength
       THEN /\ toast' = [type |-> "warning", text |-> "name too long"]
            /\ UNCHANGED <<inflight, arg>>
       ELSE /\ inflight' = inflight \cup {Request("rename", "json", "")}
            /\ arg' = [user |-> header.user, name |-> Trim(displayName)]
            /\ toast' = NoToast
    /\ failedMe' = FALSE
    /\ UNCHANGED <<fn, res, viewVars, storage, pathname, navTarget, ready, effects, header,
                   submitting, cleared>>

\* Header.handleDisplayNameSubmit from the answer on: the token is read
\* when the answer is there
DisplayNameAnswer(r, resp) ==
    /\ r.kind = "rename"
    /\ inflight' = inflight \ {r}
    /\ LET result == ApiJson(resp)
           nextUser == Spread(arg.user, "display_name",
                              IF arg.name = "" THEN Undef ELSE Str(arg.name))
           token == LoadAuthToken(storage)
       IN  IF result.kind = "throw"
           THEN /\ toast' = [type |-> "error", text |-> result.message]
                /\ UNCHANGED <<header, storage, cleared>>
           ELSE /\ header' = [header EXCEPT !.user = nextUser]
                /\ IF Truthy(token)
                   THEN /\ storage' = SaveAuthSession(
                                         Session(token, nextUser,
                                                 Coalesce(LoadAuthTenant(storage), Undef)))
                        /\ cleared' = FALSE
                   ELSE UNCHANGED <<storage, cleared>>
                /\ toast' = [type |-> "success", text |-> "name updated"]
    /\ arg' = NoRename
    /\ UNCHANGED <<fn, res, viewVars, pathname, navTarget, ready, effects, submitting,
                   failedMe>>

\* a signed-in user whose Header is about to run its effect
InitLogout ==
    /\ fn = "Header.handleLogout"
    /\ arg = NoRename
    /\ res = FALSE
    /\ storage = LoggedIn
    /\ AuthInit
    /\ ~IsPublic(pathname)
    /\ ViewIdle

SubmitDisplayName == \E displayName \in DisplayNames : HandleDisplayNameSubmit(displayName)

RespondDisplayName ==
    \E r \in inflight, resp \in MutationResponses : DisplayNameAnswer(r, resp)

\* handleLogout clears the session
LogoutClears ==
    /\ HandleLogout
    /\ res' = TRUE
    /\ UNCHANGED <<fn, arg>>

\* the backend answers a login request; a login that succeeds ends the
\* time after the logout
LoginAnswered ==
    /\ \E r \in inflight, resp \in LoginResponses : HandleSubmitAnswer(r, resp)
    /\ res' = (res /\ toast'.text # "logged in")
    /\ UNCHANGED <<fn, arg>>

NextLogout ==
    \/ RunEffects
    \/ NavCommit
    \/ LinkClick
    \/ ToggleMenu
    \/ LogoutClears
    \/ RespondOther
    \/ RespondMe
    \/ LoginSubmit
    \/ LoginAnswered
    \/ SubmitDisplayName
    \/ RespondDisplayName

SpecLogout == InitLogout /\ [][NextLogout]_vars

\* C22: after handleLogout has cleared the session, the session store holds
\* no session until a later login succeeds, whatever the order in which the
\* requests in flight at the logout (/api/auth/me, change-display-name) are
\* answered.
C22_NoSessionAfterLogout ==
    res = TRUE => LoadAuthSession(storage) = Null

(***************************************************************************)
(* AuthGuard: what is rendered on a protected path without a token         *)
(***************************************************************************)
\* AuthGuard render: the "redirecting to login" placeholder is returned
PlaceholderRendered == ~IsPublic(pathname) /\ ~ready

\* C23: in every reachable state where the path is not public and the
\* session store holds no token, AuthGuard renders the redirect placeholder
\* and not its children.
C23_PlaceholderWithoutToken ==
    (~IsPublic(pathname) /\ NoToken) => (PlaceholderRendered /\ ~ChildrenRendered)

(***************************************************************************)
(* The loading flag of a loader against its requests in flight             *)
(***************************************************************************)
\* C25: the loading flag of a loader (isLoading of loadSummary on the
\* reports page, of loadEntries on the home page, of loadEmployees on the
\* employees page) is true in every state where at least one of its requests
\* is in flight and false in every state where none is, also when requests of
\* the same loader overlap.
C25_LoadingIffInFlight ==
    Mounted =>
        \A l \in Loaders(pathname) :
            HasLoadingFlag(pathname, l) => (loading[l] <=> Unanswered(l) > 0)

(***************************************************************************)
(* Overlapping loadSummary requests of the reports page and of the home    *)
(* page.  arg holds the page, selectedMonth, the number of loadSummary     *)
(* calls made and the calls still waiting for their answer; res what the   *)
(* page shows: the list, the loading flag, the notice, and (history) the   *)
(* call whose answer was handled last.                                     *)
(***************************************************************************)
MaxRequests == 3

SummaryMonths == {"2024-01", "2024-02", "2024-03"}

\* the summary rows the backend holds for a month
SummaryRows(month) == [Rows EXCEPT !.s = month]

\* answers of GET /api/time-entries/summary?month=...
SummaryResponses(month) ==
    {[status |-> 200, body |-> OkEnvelope(Obj({<<"items", SummaryRows(month)>>}))],
     [status |-> 200, body |-> OkEnvelope(Arr)]}
    \cup FailureResponses

\* the loadSummary effect: a call in the render that changed selectedMonth
LoadSummaryCall(a, month) ==
    [a EXCEPT !.selectedMonth = month,
              !.issued = a.issued + 1,
              !.calls = a.calls \cup {[id |-> a.issued + 1, month |-> month]}]

\* loadSummary from the answer on: try / catch / finally
LoadSummaryAnswer(path, shown, call, resp) ==
    LET result == ApiJson(resp)
        failed == result.kind = "throw"
    IN  [summaryList |-> IF failed
                         THEN IF ClearsOnError(path, "loadSummary") THEN Arr
                              ELSE shown.summaryList
                         ELSE ExtractList(result.payload),
         isLoading |-> IF HasLoadingFlag(path, "loadSummary") THEN FALSE ELSE shown.isLoading,
         note |-> IF failed /\ NotifiesOnError(path, "loadSummary")
                  THEN [type |-> "error", text |-> result.message]
                  ELSE NoToast,
         from |-> call.id]

\* the page after its mount effect called loadSummary for the first month
InitLatest ==
    /\ \E path \in {"/", "/reports"} :
          /\ fn = "loadSummary"
          /\ arg = LoadSummaryCall([page |-> path, selectedMonth |-> "2024-02", issued |-> 0,
                                    calls |-> {}], "2024-02")
          /\ res = [summaryList |-> Arr,
                    isLoading |-> HasLoadingFlag(path, "loadSummary"),
                    note |-> NoToast,
                    from |-> 0]
    /\ StoreInit /\ AuthIdle /\ ViewIdle

\* the month select: setSelectedMonth, and the effect that follows the render
SelectSummaryMonth ==
    /\ fn = "loadSummary"
    /\ arg.issued < MaxRequests
    /\ \E month \in SummaryMonths \ {arg.selectedMonth} :
          arg' = LoadSummaryCall(arg, month)
    /\ res' = [res EXCEPT !.isLoading = HasLoadingFlag(arg.page, "loadSummary") \/ @,
                          !.note = NoToast]
    /\ UNCHANGED <<fn, storage, authVars, viewVars>>

\* the backend answers one of the summary requests in flight, in any order
AnswerSummary ==
    /\ fn = "loadSummary"
    /\ \E call \in arg.calls :
          \E resp \in SummaryResponses(call.month) :
              /\ arg' = [arg EXCEPT !.calls = @ \ {call}]
              /\ res' = LoadSummaryAnswer(arg.page, res, call, resp)
    /\ UNCHANGED <<fn, storage, authVars, viewVars>>

NextLatest == SelectSummaryMonth \/ AnswerSummary

SpecLatest == InitLatest /\ [][NextLatest]_vars

\* C24: once no summary request is in flight, the list shown is the answer
\* to the request issued last, the one made with the selected month,
\* whatever the order in which the answers to overlapping requests arrive.
C24_LatestRequestWins ==
    (fn = "loadSummary" /\ arg.calls = {}) =>
        /\ res.from = arg.issued
        /\ res.summaryList \in {Arr, SummaryRows(arg.selectedMonth)}

(***************************************************************************)
(* The day-detail modal of the reports page.  arg holds the openDayDetail  *)
(* calls made and those still waiting for their answer and (history) the   *)
(* date opened last and whether the user closed the modal since; res holds *)
(* the dayDetail state and the notice.                                     *)
(***************************************************************************)
DetailDates == {"05-01", "05-02"}

\* dayDetail is null: the modal is not rendered
NoDetail == [date |-> "", entries |-> Arr, loading |-> FALSE, open |-> FALSE]

\* setDayDetail({ date, entries, loading })
DayDetail(date, entries, isLoading) ==
    [date |-> date, entries |-> entries, loading |-> isLoading, open |-> TRUE]

\* the entries the backend holds for a date
DayEntries(date) == [Rows EXCEPT !.s = date]

\* answers of GET /api/time-entries?date=...
DayResponses(date) ==
    {[status |-> 200, body |-> OkEnvelope(Obj({<<"items", DayEntries(date)>>}))],
     [status |-> 200, body |-> OkEnvelope(Arr)]}
    \cup FailureResponses

\* openDayDetail after its await: try / catch
DayDetailAnswer(call, resp) ==
    LET result == ApiJson(resp)
        failed == result.kind = "throw"
    IN  [dayDetail |-> DayDetail(call.date,
                                 IF failed THEN Arr ELSE ExtractList(result.payload),
                                 FALSE),
         note |-> IF failed THEN [type |-> "error", text |-> result.message] ELSE NoToast]

\* the reports page with the modal closed
InitDayDetail ==
    /\ fn = "openDayDetail"
    /\ arg = [issued |-> 0, calls |-> {}, opened |-> "", closed |-> FALSE]
    /\ res = [dayDetail |-> NoDetail, note |-> NoToast]
    /\ StoreInit /\ AuthIdle /\ ViewIdle

\* a click on a day of the calendar, which the open modal covers:
\* openDayDetail(date) up to its await
ClickDay ==
    /\ fn = "openDayDetail"
    /\ ~res.dayDetail.open
    /\ arg.issued < MaxRequests
    /\ \E date \in DetailDates :
          /\ arg' = [issued |-> arg.issued + 1,
                     calls |-> arg.calls \cup {[id |-> arg.issued + 1, date |-> date]},
                     opened |-> date,
                     closed |-> FALSE]
          /\ res' = [dayDetail |-> DayDetail(date, Arr, TRUE), note |-> NoToast]
    /\ UNCHANGED <<fn, storage, authVars, viewVars>>

\* the close button of the modal: setDayDetail(null)
CloseDayDetail ==
    /\ fn = "openDayDetail"
    /\ res.dayDetail.open
    /\ arg' = [arg EXCEPT !.closed = TRUE]
    /\ res' = [dayDetail |-> NoDetail, note |-> NoToast]
    /\ UNCHANGED <<fn, storage, authVars, viewVars>>

\* the backend answers one of the entries requests in flight
AnswerDay ==
    /\ fn = "openDayDetail"
    /\ \E call \in arg.calls :
          \E resp \in DayResponses(call.date) :
              /\ arg' = [arg EXCEPT !.calls = @ \ {call}]
              /\ res' = DayDetailAnswer(call, resp)
    /\ UNCHANGED <<fn, storage, authVars, viewVars>>

NextDayDetail == ClickDay \/ CloseDayDetail \/ AnswerDay

SpecDayDetail == InitDayDetail /\ [][NextDayDetail]_vars

\* C26: once the user has closed the day-detail modal it stays closed until
\* openDayDetail is called again, also when the entries request is still in
\* flight at the close; and whenever the modal is open and not loading, the
\* entries shown were fetched for the date shown, which is the date opened
\* last.
C26_DayDetailModal ==
    fn = "openDayDetail" =>
        /\ arg.closed => ~res.dayDetail.open
        /\ (res.dayDetail.open /\ ~res.dayDetail.loading) =>
              /\ res.dayDetail.date = arg.opened
              /\ res.dayDetail.entries \in {Arr, DayEntries(res.dayDetail.date)}

(***************************************************************************)
(* NoticeProvider.confirm called again while its dialog is open.  res      *)
(* holds confirmRef.current, confirmState and the handleDelete calls that  *)
(* called confirm(), in the order of their calls.                          *)
(***************************************************************************)
MaxCallers == 4

\* confirm(): the promise of a new caller is stored in confirmRef.current
\* and in confirmState, over the promise that is there
Confirm(st) ==
    [ref |-> Len(st.tasks) + 1,
     state |-> Len(st.tasks) + 1,
     tasks |-> Append(st.tasks, NewTask("handleDelete", "DELETE", "confirm", <<"confirm">>))]

InitConfirm ==
    /\ fn = "confirm"
    /\ arg = Undef
    /\ res = [ref |-> 0, state |-> 0, tasks |-> <<>>]
    /\ StoreInit /\ AuthIdle /\ ViewIdle

\* a handler calls confirm() and awaits the promise
CallConfirm ==
    /\ fn = "confirm"
    /\ Len(res.tasks) < MaxCallers
    /\ res' = Confirm(res)
    /\ UNCHANGED <<fn, arg, storage, authVars, viewVars>>

\* the confirm button, the cancel button (closeConfirm, then
\* onOpenChange(false) of the same render) or the dismissal of the dialog
CloseDialog ==
    /\ fn = "confirm"
    /\ res.state # 0
    /\ \/ res' = OnOpenChange(CloseConfirm(res, TRUE), FALSE, res.state)
       \/ res' = OnOpenChange(CloseConfirm(res, FALSE), FALSE, res.state)
       \/ res' = OnOpenChange(res, FALSE, res.state)
    /\ UNCHANGED <<fn, arg, storage, authVars, viewVars>>

NextConfirm == CallConfirm \/ CloseDialog

\* the user answers every dialog that is open
SpecConfirm == InitConfirm /\ [][NextConfirm]_vars /\ WF_vars(CloseDialog)

\* the promise of the s-th confirm() call is not settled
Pending(s) == fn = "confirm" /\ s <= Len(res.tasks) /\ res.tasks[s].pc = "confirm"

\* C27: every promise returned by confirm() is resolved in the end, once the
\* dialog is closed, also when confirm() is called while the dialog of an
\* earlier call is open; no caller is left waiting forever.
C27_EveryConfirmResolves ==
    \A s \in 1..MaxCallers : Pending(s) ~> ~Pending(s)

(***************************************************************************)
(* Pagination bounds: the home and the employees page, where the user may  *)
(* change a select filter or the page size while a list request is         *)
(* unanswered (neither select is disabled while the list loads)            *)
(***************************************************************************)
NextPageBounds ==
    \/ Tick
    \/ TimerFire
    \/ EditSearch
    \/ SelectKindWhile(MaxLoads + 1)
    \/ SetPageSizeWhile(MaxLoads + 1)
    \/ PrevPage
    \/ NextPage
    \/ AnswerLoad

SpecPageBounds == InitPaging /\ [][NextPageBounds]_vars

\* no list request is unanswered and no debounce timer is about to send one
ListAtRest == Unanswered(ListLoader(pathname)) = 0 /\ timers = {}

\* C28: on the home and employees pages the current page is at least 1, and
\* once no load is in flight (nor about to be sent) and the reported total
\* is above 0, the current page is at most ceil(total / pageSize).
C28_PageWithinBounds ==
    (Mounted /\ pathname \in PagedPages) =>
        /\ listPage >= 1
        /\ (ListAtRest /\ listTotal > 0) =>
              listPage <= TotalPages(listTotal, filters.pageSize)

(***************************************************************************)
(* Home page: selectedMonth and selectedDate.  arg holds today and the two *)
(* states, res the calendar cells of the render.                           *)
(***************************************************************************)
\* `${next}-01` with the day not padded
FirstDayKey_NoPad(next) == next \o <<"-", "1">>

\* `${next}-01`
FirstDayKey(next) == next \o <<"-", "0", "1">>

TodayDays == {1, 28}

\* useState initial values: toMonthKey(today) and toDateKey(today)
InitHomeDate ==
    /\ \E year \in {2024, 2025}, month \in Months, day \in TodayDays :
          LET today == [year |-> year, month |-> month, day |-> day]
          IN  /\ fn = "Home"
              /\ arg = [today |-> today,
                        selectedMonth |-> ToMonthKey(today),
                        selectedDate |-> ToDateKey(today)]
              /\ res = CalendarCells(ToMonthKey(today))
    /\ StoreInit /\ AuthIdle /\ ViewIdle

\* handleMonthChange on an option of the month select, and the render
HomeMonthChange ==
    /\ fn = "Home"
    /\ \E option \in 1..MonthOptionCount("/") :
          \E next \in {GetMonthOptions(arg.today, "/")[option]} :
              /\ arg' = [arg EXCEPT !.selectedMonth = next,
                                    !.selectedDate = FirstDayKey(next)]
              /\ res' = CalendarCells(next)
    /\ UNCHANGED <<fn, storage, authVars, viewVars>>

\* handleDayClick(cell.dateKey) on a day cell of the calendar
HomeDayClick ==
    /\ fn = "Home"
    /\ \E position \in DOMAIN res :
          /\ res[position] # Null
          /\ arg' = [arg EXCEPT !.selectedDate = res[position].dateKey]
    /\ UNCHANGED <<fn, res, storage, authVars, viewVars>>

NextHomeDate == HomeMonthChange \/ HomeDayClick

SpecHomeDate == InitHomeDate /\ [][NextHomeDate]_vars

\* String.prototype.startsWith
StartsWith(text, prefix) ==
    Len(text) >= Len(prefix) /\ SubSeq(text, 1, Len(prefix)) = prefix

\* the twelve months up to today's month, as "YYYY-MM"
OfferedMonths ==
    {ToMonthKey(DateOfMonth(arg.today.year, (arg.today.month - 1) - back)) : back \in 0..11}

\* C29: on the home page selectedDate always starts with selectedMonth and
\* selectedMonth is one of the 12 month options; a change of the month
\* selects the first day of the new month, and a day click selects a date of
\* the selected month.
C29_DateInSelectedMonth ==
    /\ [](fn = "Home" =>
            /\ StartsWith(arg.selectedDate, arg.selectedMonth)
            /\ Len(arg.selectedDate) = Len(arg.selectedMonth) + 3
            /\ arg.selectedMonth \in OfferedMonths
            /\ Cardinality(OfferedMonths) = 12)
    /\ [][fn = "Home" =>
            /\ arg.selectedMonth' # arg.selectedMonth =>
                  arg.selectedDate' = arg.selectedMonth' \o <<"-", "0", "1">>
            /\ arg.selectedMonth' = arg.selectedMonth =>
                  \/ arg.selectedDate' = arg.selectedDate
                  \/ arg.selectedDate' = arg.selectedMonth \o <<"-", "0", "1">>
                  \/ \E p \in DOMAIN res : res[p] # Null /\ arg.selectedDate' = res[p].dateKey]_vars

\* opened on 28 March 2024, February selected and its last day clicked
C29_Witness ==
    /\ fn = "Home"
    /\ arg.today = [year |-> 2024, month |-> 3, day |-> 28]
    /\ arg.selectedMonth = <<"2", "0", "2", "4", "-", "0", "2">>
    /\ arg.selectedDate = <<"2", "0", "2", "4", "-", "0", "2", "-", "2", "9">>

(***************************************************************************)
(* Employees form: the tags.  arg holds formState.name, formState.tags,    *)
(* tagInput and whether the modal is open; res the form handleFormSubmit   *)
(* last read and the tags of the request body it built.                    *)
(***************************************************************************)
MaxTags == 2

\* the elements of an array
Range(list) == {list[i] : i \in DOMAIN list}

\* Array.from(new Set(list)): the first occurrence of every element
RECURSIVE Unique(_)
Unique(list) ==
    IF list = <<>> THEN <<>>
    ELSE AddTag(Unique(SubSeq(list, 1, Len(list) - 1)), list[Len(list)])

\* list.map((item) => item.trim())
RECURSIVE TrimAll(_)
TrimAll(list) ==
    IF list = <<>> THEN <<>> ELSE <<Trim(Head(list))>> \o TrimAll(Tail(list))

\* normalizeTags without the Set
NormalizeTags_NoSet(items) ==
    SelectSeq(TrimAll(items), LAMBDA item : item # "")

\* normalizeTags on the strings of an array, or on the parts of a string
\* split at | and ,
NormalizeTags(items) ==
    Unique(SelectSeq(TrimAll(items), LAMBDA item : item # ""))

\* the texts of a tag in a row of the backend and in the tag input
TagTexts == {"", " ", "a", " a ", "li"}

\* the tags a row of the backend may carry
RawTags == UNION {[1..n -> TagTexts] : n \in 0..MaxTags}

NotSubmitted == [sent |-> FALSE, form |-> EmptyForm, tags |-> <<>>]

\* the employees page with the modal closed
InitTags ==
    /\ fn = "EmployeesPage.formState"
    /\ arg = [form |-> EmptyForm, open |-> FALSE]
    /\ res = NotSubmitted
    /\ StoreInit /\ AuthIdle /\ ViewIdle

\* openCreateModal
OpenCreate ==
    /\ fn = "EmployeesPage.formState"
    /\ arg' = [form |-> EmptyForm, open |-> TRUE]
    /\ UNCHANGED <<fn, res, storage, authVars, viewVars>>

\* openEditModal(employee), the employee a row normalizeEmployee made
OpenEdit ==
    /\ fn = "EmployeesPage.formState"
    /\ \E raw \in RawTags :
          \E tags \in {NormalizeTags(raw)} :
              arg' = [form |-> [name |-> "li", tags |-> tags, tagInput |-> ""],
                      open |-> TRUE]
    /\ UNCHANGED <<fn, res, storage, authVars, viewVars>>

\* the name input and the tag input
TypeInForm ==
    /\ fn = "EmployeesPage.formState"
    /\ arg.open
    /\ \/ \E v \in NameValues \ {arg.form.name} : arg' = [arg EXCEPT !.form.name = v]
       \/ \E v \in TagTexts \ {arg.form.tagInput} : arg' = [arg EXCEPT !.form.tagInput = v]
    /\ UNCHANGED <<fn, res, storage, authVars, viewVars>>

\* addTag(tagInput): the add button or the Enter key
AddTagClick ==
    /\ fn = "EmployeesPage.formState"
    /\ arg.open
    /\ arg' = IF Trim(arg.form.tagInput) = ""
              THEN arg
              ELSE [arg EXCEPT !.form.tags = AddTag(@, Trim(arg.form.tagInput)),
                               !.form.tagInput = ""]
    /\ UNCHANGED <<fn, res, storage, authVars, viewVars>>

\* removeTag(tag): the x button of a tag
RemoveTag(tag) ==
    /\ fn = "EmployeesPage.formState"
    /\ arg.open
    /\ tag \in Range(arg.form.tags)
    /\ arg' = [arg EXCEPT !.form.tags = SelectSeq(@, LAMBDA item : item # tag)]
    /\ UNCHANGED <<fn, res, storage, authVars, viewVars>>

RemoveTagClick == \E tag \in TagTexts : RemoveTag(tag)

\* handleFormSubmit up to its request: the name check, tagsToSave and the
\* pending tag moved into formState.tags
SubmitTags ==
    /\ fn = "EmployeesPage.formState"
    /\ arg.open
    /\ LET pendingTag == Trim(arg.form.tagInput)
           tagsToSave == IF pendingTag # ""
                         THEN Unique(Append(arg.form.tags, pendingTag))
                         ELSE arg.form.tags
       IN  IF SubmittedName(arg.form.name) = ""
           THEN UNCHANGED <<arg, res>>
           ELSE /\ arg' = IF pendingTag # ""
                          THEN [arg EXCEPT !.form.tags = tagsToSave, !.form.tagInput = ""]
                          ELSE arg
                /\ res' = [sent |-> TRUE, form |-> arg.form, tags |-> tagsToSave]
    /\ UNCHANGED <<fn, storage, authVars, viewVars>>

NextTags ==
    \/ OpenCreate
    \/ OpenEdit
    \/ TypeInForm
    \/ AddTagClick
    \/ RemoveTagClick
    \/ SubmitTags

SpecTags == InitTags /\ [][NextTags]_vars

\* no duplicate, no empty or whitespace-only tag, every tag trimmed
CleanTags(tags) ==
    /\ \A i, j \in DOMAIN tags : tags[i] = tags[j] => i = j
    /\ \A i \in DOMAIN tags : tags[i] \notin {"", " "} /\ Trim(tags[i]) = tags[i]

\* C30: formState.tags never holds a duplicate, an empty or whitespace-only
\* tag or an untrimmed tag; the tags sent on submit are formState.tags plus
\* the trimmed pending tag input if it is not empty, without duplicates;
\* addTag of a tag already present leaves the list unchanged and removeTag(t)
\* removes exactly t.
C30_FormTags ==
    /\ [](fn = "EmployeesPage.formState" =>
            /\ CleanTags(arg.form.tags)
            /\ res.sent =>
                  /\ CleanTags(res.tags)
                  /\ Range(res.tags) =
                        Range(res.form.tags) \cup ({Trim(res.form.tagInput)} \ {""})
                  /\ SubSeq(res.tags, 1, Len(res.form.tags)) = res.form.tags)
    /\ [][/\ (AddTagClick /\ Trim(arg.form.tagInput) \in Range(arg.form.tags)) =>
                arg.form.tags' = arg.form.tags
          /\ (AddTagClick /\ Trim(arg.form.tagInput) \notin Range(arg.form.tags) \cup {""}) =>
                arg.form.tags' = arg.form.tags \o <<Trim(arg.form.tagInput)>>
          /\ \A tag \in TagTexts :
                RemoveTag(tag) =>
                    /\ Range(arg.form.tags') = Range(arg.form.tags) \ {tag}
                    /\ Len(arg.form.tags') = Len(arg.form.tags) - 1]_vars

\* the form holds the tag a; the submit with li pending in the tag input
\* sends a and li and moves li into the form
C30_Witness ==
    /\ fn = "EmployeesPage.formState"
    /\ res.sent
    /\ res.form.tags = <<"a">>
    /\ res.form.tagInput = "li"
    /\ res.tags = <<"a", "li">>
    /\ arg.form.tags = <<"a", "li">>
    /\ arg.form.tagInput = ""

====
